---- MODULE Spec2Model ----
(***************************************************************************)
(* State-machine model of the per-share protocol engines of                *)
(* meesign-crypto: GG18 keygen / sign (src/src/protocol/gg18.rs) and       *)
(* MuSig2 keygen / sign (src/src/protocol/musig2.rs), driven through the   *)
(* Protocol trait (advance / finish) and the serde snapshot of c_api.rs.   *)
(*                                                                         *)
(* Cryptographic values are abstract: a key share is a small integer, an   *)
(* aggregate key is the set of the shares that went into it, a signature   *)
(* is the pair (aggregate key, message).  Byte strings on the wire are     *)
(* modelled by what the decoders of the code do with them (tag /= expected *)
(* message: prost decode error; class "junk": serde_json error; ...).      *)
(***************************************************************************)
EXTENDS Integers, Sequences, FiniteSets, TLC

VARIABLES
    engine,   \* the Box<dyn Protocol> behind the handle: kind, round variant, fields
    alive,    \* "live" | "consumed" (finish took the Box) | "serialized" | "crashed" (panic)
    last,     \* the last call: operation, bytes passed, Ok/Err/panic, bytes returned, recipient
    snap,     \* bytes returned by the last protocol_serialize
    nAdv,     \* history: number of advance calls that returned Ok
    firstErr, \* history: error of the first advance that returned Err (<<>> when none yet)
    net,      \* a run of n engines through the in-memory server of the test harness
    sl,       \* a multi-share handle: session state and the shares of the SecureLayer
    probe     \* the last application of a codec function or constructor: input and result

\* the variables of one handle holding one engine
hvars == <<engine, alive, last, snap, nAdv, firstErr>>
\* the variables of the other settings, idle while a single handle is driven
ovars == <<net, sl, probe>>
vars == <<engine, alive, last, snap, nAdv, firstErr, net, sl, probe>>

---------------------------------------------------------------------------
(* Bounds of the model *)

\* key shares drawn by Signer::new() / carried by peers' payloads: 1..MaxKey
MaxKey == 2
\* peers whose broadcasts an inbound ServerMessage may carry: 1..MaxPeer
MaxPeer == 2
\* largest number of parties of a run through the test harness (the tests run 2..5)
MaxParties == 5
\* largest number of shares behind one handle: 1..MaxShares
MaxShares == 2

(* Program constants *)

PUBNONCE_CHUNK_LEN == 67
SCALAR_CHUNK_LEN == 33
\* length of a serialized secp256k1 public key ([u8; 33] in KeygenContext::update)
PUBKEY_LEN == 33
\* the proto fields are u32 and the engines cast them with `as u16`
U16_MOD == 65536

Keys == 1..MaxKey
Peers == 1..MaxPeer

\* `x as u16` of a u32
AsU16(x) == x % U16_MOD

\* Option<T>: None is <<>>, Some(x) is <<x>>
None == <<>>
Some(x) == <<x>>

ProtocolTypes == {"Gg18", "Musig2"}

EngineKinds == {"gg18_keygen", "gg18_sign", "musig2_keygen", "musig2_sign"}

---------------------------------------------------------------------------
(* Data carried by the engines *)

\* struct Setup { threshold: u16, parties: u16, index: u16 }
Setup(t, p, i) == [threshold |-> t, parties |-> p, index |-> i]
NoSetup == Setup(0, 0, 0)

\* musig2::signer::Signer.  key: the secret share (0: none); agg: the shares
\* aggregated by generate_key_agg_ctx ({}: no key_agg_ctx yet); phase: 0 new,
\* 1 after first_round, 2 after second_round, 3 after receive_partial_signatures.
\* The same shape stands for the opaque carry-over contexts of the GG18 library.
NoSigner == [key |-> 0, agg |-> {}, phase |-> 0]
Signer_new(k) == [key |-> k, agg |-> {}, phase |-> 0]
Signer_generate_key_agg_ctx(s, pks) == [s EXCEPT !.agg = pks \cup {s.key}]
Signer_first_round(s) == [s EXCEPT !.phase = 1]
Signer_second_round(s) == [s EXCEPT !.phase = 2]
Signer_receive_partial_signatures(s) == [s EXCEPT !.phase = 3]

\* a signature (or a message being signed): aggregate key and message bytes
Val(agg, msg) == [agg |-> agg, msg |-> msg]
NoVal == Val({}, <<>>)

\* A round variant with the data it carries, e.g. R1(Setup, Signer), Done(sig)
Round(name, setup, signer, val) ==
    [name |-> name, setup |-> setup, signer |-> signer, val |-> val]
R0 == Round("R0", NoSetup, NoSigner, NoVal)

\* One payload of a ClientMessage / ServerMessage, by what the decoders make
\* of it.  t = "junk": not JSON (serde_json error); "badpoint": JSON bytes that
\* are no valid point / nonce / scalar (from_slice(..).unwrap() panics);
\* "badsig": well-formed but rejected by verification; "ok": accepted.
\* len: number of bytes; idx: trailing signer-index byte; v: the shares behind it.
Payload(t, len, idx, v, msg) ==
    [t |-> t, len |-> len, idx |-> idx, v |-> v, msg |-> msg]

\* what peer p may have sent: a well-formed key share or partial signature
\* (33 bytes) or nonce chunk (67 bytes) of its own, the same with the signer
\* index of peer 1, or one of the ill-formed payloads
PeerPayloads(p) ==
    {Payload("ok", PUBKEY_LEN, i, {p}, <<>>) : i \in {1, p}}
    \cup {Payload("ok", PUBNONCE_CHUNK_LEN, i, {p}, <<>>) : i \in {1, p}}
    \cup {Payload("junk", 0, 0, {}, <<>>),
          Payload("badpoint", PUBKEY_LEN, p, {}, <<>>),
          Payload("badpoint", PUBNONCE_CHUNK_LEN, p, {}, <<>>),
          Payload("badsig", SCALAR_CHUNK_LEN, p, {p}, <<>>)}

\* message bytes a host may ask to sign
Messages == {<<>>, <<104>>}

\* u32 values of the session-init fields: small ones, and ones above 2^16
U32Samples == {0, 2, U16_MOD + 2}

\* ProtocolGroupInit { protocol_type, parties, threshold, index }
GroupInits ==
    [tag : {"ProtocolGroupInit"}, protocol_type : ProtocolTypes,
     parties : U32Samples, threshold : {2, 3}, index : {1, 3}]

\* ProtocolInit { protocol_type, indices, index, data }
IndicesSamples == {<<>>, <<1, 2>>}
SignInits ==
    [tag : {"ProtocolInit"}, protocol_type : ProtocolTypes,
     indices : IndicesSamples, index : {1, 3}, data : Messages]

\* ServerMessage { protocol_type, broadcasts } (peer -> payload, None: no entry)
ServerMessages ==
    {[tag |-> "ServerMessage", protocol_type |-> pt, broadcasts |-> b] :
        pt \in ProtocolTypes,
        b \in {f \in [Peers -> {None} \cup UNION {{Some(x) : x \in PeerPayloads(p)} : p \in Peers}] :
                 \A p \in Peers : f[p] = None \/ f[p][1] \in PeerPayloads(p)}}

\* bytes that decode as no protobuf message at all
Garbage == [tag |-> "garbage"]

\* what the first advance is meant to receive, and bytes that are no message
SessionInits == GroupInits \cup SignInits \cup {Garbage}

\* <<1, .., k>>
RECURSIVE Ascending(_)
Ascending(k) == IF k = 0 THEN <<>> ELSE Append(Ascending(k - 1), k)

\* an iteration order of a HashMap keyed by peer index: the peers in some order
\* (HashMap::values() visits the entries present, in an order of its own)
AscendingOrder == Ascending(MaxPeer + MaxParties)

\* what the library draws or decides by itself during a call: the fresh key of
\* Signer::new() / gg18_key_gen_1, whether a fallible library call succeeds,
\* and the order in which a HashMap of the call is iterated
Rnd(key, lib_ok, order) == [key |-> key, lib_ok |-> lib_ok, order |-> order]
\* the draws of a first advance, which iterates no map
Rnds == {Rnd(k, ok, AscendingOrder) : k \in Keys, ok \in BOOLEAN}

\* Result of a call.  tag: "ok" | "err" | "panic"; out: the broadcast of the
\* outgoing ClientMessage; art: the artifact returned by finish
NoArt == [setup |-> NoSetup, signer |-> NoSigner, val |-> NoVal]
Ok(pt, payload, rec) ==
    [tag |-> "ok", err |-> "", pt |-> pt, out |-> Some(payload), rec |-> rec, art |-> NoArt]
OkArt(art) ==
    [tag |-> "ok", err |-> "", pt |-> "", out |-> None, rec |-> "Unknown", art |-> art]
Err(e) ==
    [tag |-> "err", err |-> e, pt |-> "", out |-> None, rec |-> "Unknown", art |-> NoArt]
Panic(e) ==
    [tag |-> "panic", err |-> e, pt |-> "", out |-> None, rec |-> "Unknown", art |-> NoArt]

\* the payloads present in a ServerMessage's broadcasts map
Values(broadcasts) == {broadcasts[p][1] : p \in {q \in DOMAIN broadcasts : broadcasts[q] # None}}

\* error strings of prost (DecodeError), serde_json and the crypto libraries
DecodeError == "failed to decode Protobuf message"
JsonError == "serde_json error"
CryptoError == "cryptographic library error"

\* The engine behind a Box<dyn Protocol>: its concrete type (typetag name), the
\* round variant and the other fields of its struct (defaults when the struct
\* has no such field)
Engine(kind, round, with_card, setup, initial_signer, message, indices) ==
    [kind |-> kind, round |-> round, with_card |-> with_card, setup |-> setup,
     initial_signer |-> initial_signer, message |-> message, indices |-> indices]

---------------------------------------------------------------------------
(* MuSig2 keygen: src/src/protocol/musig2.rs *)

musig2_KeygenContext_new == Engine("musig2_keygen", R0, FALSE, NoSetup, NoSigner, None, None)
musig2_KeygenContext_with_card == Engine("musig2_keygen", R0, TRUE, NoSetup, NoSigner, None, None)

musig2_KeygenContext_init(e, data, rnd) ==
    IF data.tag # "ProtocolGroupInit" THEN [eng |-> e, res |-> Err(DecodeError)]
    ELSE IF data.protocol_type # "Musig2"
    THEN [eng |-> e, res |-> Err("wrong protocol type")]
    ELSE IF AsU16(data.parties) # AsU16(data.threshold)
    THEN [eng |-> e, res |-> Err("number of parties must be equal to the treshold")]
    ELSE LET setup == Setup(AsU16(data.threshold), AsU16(data.parties), AsU16(data.index))
             signer == Signer_new(rnd.key)
         IN  [eng |-> [e EXCEPT !.round = Round("R1", setup, signer, NoVal)],
              res |-> Ok("Musig2", Payload("ok", PUBKEY_LEN, 0, {signer.key}, <<>>), "Server")]

\* an update whose last broadcast is the party's own key share, not the aggregate
musig2_KeygenContext_update_own_key(e, data) ==
    IF e.round.name = "R1" /\ data.tag = "ServerMessage"
    THEN LET signer == Signer_generate_key_agg_ctx(e.round.signer,
                                                   UNION {p.v : p \in Values(data.broadcasts)})
         IN  [eng |-> [e EXCEPT !.round = Round("Done", e.round.setup, signer, NoVal)],
              res |-> Ok("Musig2", Payload("ok", PUBKEY_LEN, 0, {signer.key}, <<>>), "Server")]
    ELSE [eng |-> e, res |-> Err("protocol not initialized")]

\* an update that answers the round's messages and waits for more of them
musig2_KeygenContext_update_waits(e, data) ==
    IF e.round.name = "R1" /\ data.tag = "ServerMessage"
    THEN [eng |-> e,
          res |-> Ok("Musig2", Payload("ok", PUBKEY_LEN, 0, {e.round.signer.key}, <<>>),
                     "Server")]
    ELSE [eng |-> e, res |-> Err("protocol not initialized")]

musig2_KeygenContext_update(e, data) ==
    CASE e.round.name = "R0" -> [eng |-> e, res |-> Err("protocol not initialized")]
      [] e.round.name = "R1" ->
            IF data.tag # "ServerMessage" THEN [eng |-> e, res |-> Err(DecodeError)]
            ELSE LET vals == Values(data.broadcasts) IN
                 IF \E p \in vals : p.t = "junk" THEN [eng |-> e, res |-> Err(JsonError)]
                 ELSE IF \E p \in vals : p.len # PUBKEY_LEN
                 THEN [eng |-> e, res |-> Panic("slice with incorrect length")]
                 ELSE IF \E p \in vals : p.t = "badpoint"
                 THEN [eng |-> e, res |-> Panic("unwrap on an Err value")]
                 ELSE LET pks == UNION {p.v : p \in vals}
                          signer == Signer_generate_key_agg_ctx(e.round.signer, pks)
                      IN  [eng |-> [e EXCEPT !.round =
                                       Round("Done", e.round.setup, signer, NoVal)],
                           res |-> Ok("Musig2",
                                      Payload("ok", PUBKEY_LEN, 0, signer.agg, <<>>),
                                      "Server")]
      [] OTHER -> [eng |-> e, res |-> Err("protocol already finished")]

\* an advance that picks the step by the message it is given, not by the round
musig2_KeygenContext_advance_by_message(e, data, rnd) ==
    IF data.tag = "ProtocolGroupInit" THEN musig2_KeygenContext_init(e, data, rnd)
    ELSE musig2_KeygenContext_update(e, data)

musig2_KeygenContext_advance(e, data, rnd) ==
    IF e.round.name = "R0" THEN musig2_KeygenContext_init(e, data, rnd)
    ELSE musig2_KeygenContext_update(e, data)

\* a finish whose artifact holds the key share without the key_agg_ctx
musig2_KeygenContext_finish_share_only(e) ==
    IF e.round.name = "Done"
    THEN OkArt([setup |-> e.round.setup, signer |-> Signer_new(e.round.signer.key),
                val |-> NoVal])
    ELSE Err("protocol not finished")

musig2_KeygenContext_finish(e) ==
    IF e.round.name = "Done"
    THEN OkArt([setup |-> e.round.setup, signer |-> e.round.signer, val |-> NoVal])
    ELSE Err("protocol not finished")


---------------------------------------------------------------------------
(* MuSig2 sign: src/src/protocol/musig2.rs *)

Present(broadcasts) == {q \in DOMAIN broadcasts : broadcasts[q] # None}

\* map.values().cloned().collect(): the payloads present, in iteration order
RECURSIVE ValuesIn(_, _)
ValuesIn(broadcasts, order) ==
    IF order = <<>> THEN <<>>
    ELSE IF Head(order) \in Present(broadcasts)
    THEN <<broadcasts[Head(order)][1]>> \o ValuesIn(broadcasts, Tail(order))
    ELSE ValuesIn(broadcasts, Tail(order))

\* data.concat().len()
RECURSIVE ConcatLen(_)
ConcatLen(data) == IF data = <<>> THEN 0 ELSE Head(data).len + ConcatLen(Tail(data))

\* One chunk of chunks_exact(chunk_len), from the payloads (or parts of
\* payloads) that fill it.  A payload of chunk_len bytes is the chunk itself;
\* the first byte of a chunk ("head") followed by the rest of the same chunk
\* ("tail") is that chunk; any other filling is chunk_len bytes that are no
\* encoding of anything, whose last byte is the last byte of the last part.
MkChunk(parts) ==
    IF Len(parts) = 1 /\ parts[1].t \in {"ok", "badpoint", "badsig"}
    THEN [t |-> parts[1].t, idx |-> parts[1].idx, v |-> parts[1].v]
    ELSE IF Len(parts) = 2 /\ parts[1].t = "head" /\ parts[2].t = "tail"
                           /\ parts[1].v = parts[2].v
    THEN [t |-> "ok", idx |-> parts[2].idx, v |-> parts[2].v]
    ELSE [t |-> "badpoint", idx |-> parts[Len(parts)].idx, v |-> {}]

\* a chunk that ends inside a payload: its last byte is an inner byte (0)
BrokenChunk == [t |-> "badpoint", idx |-> 0, v |-> {}]

\* data.chunks_exact(chunk_len) over the concatenation of data; parts: the
\* payloads gathered for the chunk being filled, fill: their bytes
RECURSIVE Chunks(_, _, _, _)
Chunks(data, chunk_len, parts, fill) ==
    IF data = <<>> THEN <<>>
    ELSE LET p == Head(data) IN
         IF p.len = 0 THEN Chunks(Tail(data), chunk_len, parts, fill)
         ELSE IF fill + p.len < chunk_len
         THEN Chunks(Tail(data), chunk_len, Append(parts, p), fill + p.len)
         ELSE IF fill + p.len = chunk_len
         THEN <<MkChunk(Append(parts, p))>> \o Chunks(Tail(data), chunk_len, <<>>, 0)
         ELSE <<BrokenChunk>>
              \o Chunks(<<[p EXCEPT !.t = "rest", !.len = fill + p.len - chunk_len]>>
                           \o Tail(data),
                        chunk_len, <<>>, 0)

\* a deserialize_musig that inserts without looking for the key: a later
\* chunk replaces an earlier one that ends in the same byte
deserialize_musig_overwrite(data, chunk_len) ==
    IF ConcatLen(data) % chunk_len # 0
    THEN [err |-> "Input data length must be a multiple of the input size", map |-> {}]
    ELSE LET chunks == Chunks(data, chunk_len, <<>>, 0) IN
         [err |-> "",
          map |-> {chunks[i] : i \in {k \in 1..Len(chunks) :
                                         \A l \in (k + 1)..Len(chunks) :
                                            chunks[l].idx # chunks[k].idx}}]

\* deserialize_musig: err is "" when it returns the map, whose entries are
\* then the chunks (keyed by their last byte), else the error it returns
deserialize_musig(data, chunk_len) ==
    IF ConcatLen(data) % chunk_len # 0
    THEN [err |-> "Input data length must be a multiple of the input size", map |-> {}]
    ELSE LET chunks == Chunks(data, chunk_len, <<>>, 0) IN
         IF \E i, j \in 1..Len(chunks) : i < j /\ chunks[i].idx = chunks[j].idx
         THEN [err |-> "Duplicate key found", map |-> {}]
         ELSE [err |-> "", map |-> {chunks[i] : i \in 1..Len(chunks)}]

\* a MuSig2 sign constructor that takes nothing from the group bytes
musig2_SignContext_new_blank(group) ==
    Engine("musig2_sign", R0, FALSE, NoSetup, NoSigner, None, None)

\* ThresholdProtocol::new(group): group is the artifact (Setup, Signer) of a keygen
musig2_SignContext_new(group) ==
    Engine("musig2_sign", R0, FALSE, group.setup, group.signer, None, None)

\* `*i as u16` over the indices of the session-init
RECURSIVE MapAsU16(_)
MapAsU16(seq) ==
    IF seq = <<>> THEN <<>> ELSE <<AsU16(Head(seq))>> \o MapAsU16(Tail(seq))

\* an init that moves to R1 without storing the message to sign
musig2_SignContext_init_no_message(e, data, rnd) ==
    IF data.tag # "ProtocolInit" THEN [eng |-> e, res |-> Err(DecodeError)]
    ELSE IF data.protocol_type # "Musig2"
    THEN [eng |-> e, res |-> Err("wrong protocol type")]
    ELSE LET e1 == [e EXCEPT !.indices = Some(MapAsU16(data.indices)),
                             !.initial_signer = Signer_first_round(e.initial_signer)]
         IN  IF ~rnd.lib_ok
             THEN [eng |-> e1, res |-> Err(CryptoError)]
             ELSE [eng |-> [e1 EXCEPT !.round =
                              Round("R1", NoSetup, e1.initial_signer, NoVal)],
                   res |-> Ok("Musig2",
                              Payload("ok", PUBNONCE_CHUNK_LEN, e1.initial_signer.key,
                                      {e1.initial_signer.key}, <<>>),
                              "Server")]

musig2_SignContext_init(e, data, rnd) ==
    IF data.tag # "ProtocolInit" THEN [eng |-> e, res |-> Err(DecodeError)]
    ELSE IF data.protocol_type # "Musig2"
    THEN [eng |-> e, res |-> Err("wrong protocol type")]
    ELSE LET e1 == [e EXCEPT !.indices = Some(MapAsU16(data.indices)),
                             !.message = Some(data.data),
                             !.initial_signer = Signer_first_round(e.initial_signer)]
         IN  IF ~rnd.lib_ok        \* self.initial_signer.get_pubnonce()? returned Err
             THEN [eng |-> e1, res |-> Err(CryptoError)]
             ELSE [eng |-> [e1 EXCEPT !.round =
                              Round("R1", NoSetup, e1.initial_signer, NoVal)],
                   res |-> Ok("Musig2",
                              Payload("ok", PUBNONCE_CHUNK_LEN, e1.initial_signer.key,
                                      {e1.initial_signer.key}, <<>>),
                              "Server")]

\* an update whose final signature sums the partial signatures received and
\* leaves out the party's own
musig2_SignContext_update_peers_only(e, data, rnd) ==
    IF data.tag # "ServerMessage" \/ e.round.name \notin {"R1", "R2"}
    THEN [eng |-> e, res |-> Err(DecodeError)]
    ELSE IF e.round.name = "R1"
    THEN LET signer == Signer_second_round(e.round.signer)
         IN  [eng |-> [e EXCEPT !.round = Round("R2", NoSetup, signer, NoVal)],
              res |-> Ok("Musig2",
                         Payload("ok", SCALAR_CHUNK_LEN, signer.key, {signer.key},
                                 e.message[1]),
                         "Server")]
    ELSE LET signature == Val(UNION {p.v : p \in Values(data.broadcasts)}, e.message[1])
         IN  [eng |-> [e EXCEPT !.round = Round("Done", NoSetup, NoSigner, signature)],
              res |-> Ok("Musig2",
                         Payload("ok", 2 * (SCALAR_CHUNK_LEN - 1), 0,
                                 signature.agg, signature.msg),
                         "Server")]

musig2_SignContext_update(e, data, rnd) ==
    CASE e.round.name = "R0" -> [eng |-> e, res |-> Err("protocol not initialized")]
      [] e.round.name = "R1" ->
            IF data.tag # "ServerMessage" THEN [eng |-> e, res |-> Err(DecodeError)]
            ELSE LET vals == ValuesIn(data.broadcasts, rnd.order)
                     pubnonces == deserialize_musig(vals, PUBNONCE_CHUNK_LEN)
                 IN
                 IF \E i \in 1..Len(vals) : vals[i].t = "junk"
                 THEN [eng |-> e, res |-> Err(JsonError)]
                 ELSE IF pubnonces.err # "" THEN [eng |-> e, res |-> Err(pubnonces.err)]
                 ELSE IF \E c \in pubnonces.map : c.t = "badpoint"
                 THEN [eng |-> e, res |-> Panic("unwrap on an Err value")]
                 ELSE IF e.message = None
                 THEN [eng |-> e, res |-> Err("message to sign not initialized")]
                 ELSE LET signer == Signer_second_round(e.round.signer)
                      IN  [eng |-> [e EXCEPT !.round = Round("R2", NoSetup, signer, NoVal)],
                           res |-> Ok("Musig2",
                                      Payload("ok", SCALAR_CHUNK_LEN, signer.key,
                                              {signer.key}, e.message[1]),
                                      "Server")]
      [] e.round.name = "R2" ->
            IF data.tag # "ServerMessage" THEN [eng |-> e, res |-> Err(DecodeError)]
            ELSE LET vals == ValuesIn(data.broadcasts, rnd.order)
                     shares == deserialize_musig(vals, SCALAR_CHUNK_LEN)
                 IN
                 IF \E i \in 1..Len(vals) : vals[i].t = "junk"
                 THEN [eng |-> e, res |-> Err(JsonError)]
                 ELSE IF shares.err # "" THEN [eng |-> e, res |-> Err(shares.err)]
                 ELSE IF \E c \in shares.map : c.t = "badpoint"
                 THEN [eng |-> e, res |-> Panic("unwrap on an Err value")]
                 ELSE IF \E c \in shares.map : c.t = "badsig"   \* get_agg_signature() is Err
                 THEN [eng |-> e, res |-> Err(CryptoError)]
                 ELSE LET signature == Val(e.round.signer.agg, e.message[1])
                      IN  [eng |-> [e EXCEPT !.round =
                                       Round("Done", NoSetup, NoSigner, signature)],
                           res |-> Ok("Musig2",
                                      Payload("ok", 2 * (SCALAR_CHUNK_LEN - 1), 0,
                                              signature.agg, signature.msg),
                                      "Server")]
      [] OTHER -> [eng |-> e, res |-> Err("protocol already finished")]

musig2_SignContext_advance(e, data, rnd) ==
    IF e.round.name = "R0" THEN musig2_SignContext_init(e, data, rnd)
    ELSE musig2_SignContext_update(e, data, rnd)

\* a finish that hands out an artifact without the signature of the round
musig2_SignContext_finish_blank(e) ==
    IF e.round.name = "Done" THEN OkArt(NoArt) ELSE Err("protocol not finished")

musig2_SignContext_finish(e) ==
    IF e.round.name = "Done"
    THEN OkArt([setup |-> NoSetup, signer |-> NoSigner, val |-> e.round.val])
    ELSE Err("protocol not finished")

---------------------------------------------------------------------------
(* GG18 keygen and sign: src/src/protocol/gg18.rs.  The carry-over contexts  *)
(* GG18KeyGenContext1..5, GG18SignContext, GG18SignContext1..9 belong to the *)
(* mpecdsa library; the model keeps what went into them.  advance returns    *)
(* the bytes alone (Result<Vec<u8>>): no recipient is named, which a Buffer  *)
(* made from a Vec<u8> reports as Recipient::Unknown (c_api.rs).              *)

gg18_KeygenContext_new == Engine("gg18_keygen", R0, FALSE, NoSetup, NoSigner, None, None)

gg18_KeygenContext_init(e, data, rnd) ==
    IF data.tag # "ProtocolGroupInit" THEN [eng |-> e, res |-> Err(DecodeError)]
    ELSE IF ~rnd.lib_ok                      \* gg18_key_gen_1(..)? returned Err
    THEN [eng |-> e, res |-> Err(CryptoError)]
    ELSE IF data.parties = 0                 \* msg.parties as usize - 1
    THEN [eng |-> e, res |-> Panic("attempt to subtract with overflow")]
    ELSE LET setup == Setup(AsU16(data.threshold), AsU16(data.parties), AsU16(data.index))
             c1 == Signer_new(rnd.key)
         IN  [eng |-> [e EXCEPT !.round = Round("R1", setup, c1, NoVal)],
              res |-> Ok("Gg18", Payload("ok", PUBKEY_LEN, 0, {c1.key}, <<>>), "Unknown")]

\* a successor that passes over R3
gg18_KeygenRound_next_skip(name) ==
    CASE name = "R1" -> "R2" [] name = "R2" -> "R4" [] name = "R3" -> "R4"
      [] name = "R4" -> "R5" [] name = "R5" -> "Done"

\* the variant after R1..R5
gg18_KeygenRound_next(name) ==
    CASE name = "R1" -> "R2" [] name = "R2" -> "R3" [] name = "R3" -> "R4"
      [] name = "R4" -> "R5" [] name = "R5" -> "Done"

gg18_KeygenContext_update(e, data) ==
    IF data.tag # "ServerMessage" THEN [eng |-> e, res |-> Err(DecodeError)]  \* unpack(data)?
    ELSE LET vals == Values(data.broadcasts) IN
         CASE e.round.name = "R0" -> [eng |-> e, res |-> Panic("unreachable")]
           [] e.round.name = "Done" -> [eng |-> e, res |-> Panic("not yet implemented")]
           [] OTHER ->
                IF \E p \in vals : p.t = "junk"      \* deserialize_vec(&msgs)?
                THEN [eng |-> e, res |-> Err(JsonError)]
                ELSE IF \E p \in vals : p.t \in {"badpoint", "badsig"}  \* gg18_key_gen_k(..)?
                THEN [eng |-> e, res |-> Err(CryptoError)]
                ELSE LET c == IF e.round.name = "R5"
                              THEN Signer_generate_key_agg_ctx(e.round.signer,
                                                               UNION {p.v : p \in vals})
                              ELSE e.round.signer
                     IN  [eng |-> [e EXCEPT !.round =
                                      Round(gg18_KeygenRound_next(e.round.name),
                                            e.round.setup, c, NoVal)],
                          res |-> Ok("Gg18",
                                     Payload("ok", PUBKEY_LEN, 0,
                                             IF e.round.name = "R5" THEN c.agg ELSE {c.key},
                                             <<>>),
                                     "Unknown")]

gg18_KeygenContext_advance(e, data, rnd) ==
    IF e.round.name = "R0" THEN gg18_KeygenContext_init(e, data, rnd)
    ELSE gg18_KeygenContext_update(e, data)

\* a finish that hands out the carried context in whatever round it is called
gg18_KeygenContext_finish_any_round(e) ==
    OkArt([setup |-> e.round.setup, signer |-> e.round.signer, val |-> NoVal])

gg18_KeygenContext_finish(e) ==
    IF e.round.name = "Done"
    THEN OkArt([setup |-> e.round.setup, signer |-> e.round.signer, val |-> NoVal])
    ELSE Err("protocol not finished")

\* SignContext::new(group): R0 carries the GG18SignContext of the group
gg18_SignContext_new(group) ==
    Engine("gg18_sign", Round("R0", group.setup, group.signer, NoVal),
           FALSE, NoSetup, NoSigner, None, None)

gg18_SignContext_init(e, data, rnd) ==
    IF data.tag # "ProtocolInit" THEN [eng |-> e, res |-> Err(DecodeError)]
    ELSE IF ~rnd.lib_ok                      \* gg18_sign1(..)? returned Err
    THEN [eng |-> e, res |-> Err(CryptoError)]
    ELSE IF Len(data.indices) = 0            \* parties - 1 with parties = indices.len()
    THEN [eng |-> e, res |-> Panic("attempt to subtract with overflow")]
    ELSE [eng |-> [e EXCEPT !.round =
                      Round("R1", e.round.setup, e.round.signer,
                            Val(e.round.signer.agg, data.data))],
          res |-> Ok("Gg18", Payload("ok", PUBKEY_LEN, 0, {e.round.signer.key}, <<>>),
                     "Unknown")]

\* a round sequence that ends one round early (R8 straight to Done)
gg18_SignRound_next_short(name) ==
    CASE name = "R1" -> "R2" [] name = "R2" -> "R3" [] name = "R3" -> "R4"
      [] name = "R4" -> "R5" [] name = "R5" -> "R6" [] name = "R6" -> "R7"
      [] name = "R7" -> "R8" [] name = "R8" -> "Done" [] name = "R9" -> "Done"

\* the variant after R1..R9
gg18_SignRound_next(name) ==
    CASE name = "R1" -> "R2" [] name = "R2" -> "R3" [] name = "R3" -> "R4"
      [] name = "R4" -> "R5" [] name = "R5" -> "R6" [] name = "R6" -> "R7"
      [] name = "R7" -> "R8" [] name = "R8" -> "R9" [] name = "R9" -> "Done"

gg18_SignContext_update(e, data) ==
    IF data.tag # "ServerMessage" THEN [eng |-> e, res |-> Err(DecodeError)]  \* unpack(data)?
    ELSE LET vals == Values(data.broadcasts) IN
         CASE e.round.name = "R0" -> [eng |-> e, res |-> Panic("unreachable")]
           [] e.round.name = "Done" -> [eng |-> e, res |-> Panic("not yet implemented")]
           [] OTHER ->
                IF \E p \in vals : p.t = "junk"      \* deserialize_vec(&msgs)?
                THEN [eng |-> e, res |-> Err(JsonError)]
                ELSE IF \E p \in vals : p.t \in {"badpoint", "badsig"}  \* gg18_signk(..)?
                THEN [eng |-> e, res |-> Err(CryptoError)]
                ELSE LET next == gg18_SignRound_next(e.round.name)
                     IN  [eng |-> [e EXCEPT !.round =
                                      IF next = "Done"
                                      THEN Round("Done", NoSetup, NoSigner, e.round.val)
                                      ELSE [e.round EXCEPT !.name = next]],
                          res |-> Ok("Gg18",
                                     Payload("ok", PUBKEY_LEN, 0,
                                             IF next = "Done" THEN e.round.val.agg
                                             ELSE {e.round.signer.key},
                                             IF next = "Done" THEN e.round.val.msg ELSE <<>>),
                                     "Unknown")]

gg18_SignContext_advance(e, data, rnd) ==
    IF e.round.name = "R0" THEN gg18_SignContext_init(e, data, rnd)
    ELSE gg18_SignContext_update(e, data)

gg18_SignContext_finish(e) ==
    IF e.round.name = "Done"
    THEN OkArt([setup |-> NoSetup, signer |-> NoSigner, val |-> e.round.val])
    ELSE Err("protocol not finished")


---------------------------------------------------------------------------
(* Dynamic dispatch over the engines: trait Protocol, src/src/protocol/mod.rs *)

Protocol_advance(e, data, rnd) ==
    CASE e.kind = "gg18_keygen" -> gg18_KeygenContext_advance(e, data, rnd)
      [] e.kind = "gg18_sign" -> gg18_SignContext_advance(e, data, rnd)
      [] e.kind = "musig2_keygen" -> musig2_KeygenContext_advance(e, data, rnd)
      [] e.kind = "musig2_sign" -> musig2_SignContext_advance(e, data, rnd)

Protocol_finish(e) ==
    CASE e.kind = "gg18_keygen" -> gg18_KeygenContext_finish(e)
      [] e.kind = "gg18_sign" -> gg18_SignContext_finish(e)
      [] e.kind = "musig2_keygen" -> musig2_KeygenContext_finish(e)
      [] e.kind = "musig2_sign" -> musig2_SignContext_finish(e)

(* Snapshot: #[derive(Serialize, Deserialize)] on each context struct and    *)
(* #[typetag::serde(name = ...)] on each impl Protocol.  The JSON object     *)
(* holds the typetag name and the fields the struct declares, nothing else.  *)

\* a snapshot in which both GG18 engines carry the keygen name
Serialize_one_gg18_name(e) ==
    CASE e.kind \in {"gg18_keygen", "gg18_sign"} ->
            [typetag |-> "gg18_keygen", round |-> e.round]
      [] e.kind = "musig2_keygen" ->
            [typetag |-> "musig2_keygen", round |-> e.round, with_card |-> e.with_card]
      [] e.kind = "musig2_sign" ->
            [typetag |-> "musig2_sign", setup |-> e.setup,
             initial_signer |-> e.initial_signer, message |-> e.message,
             indices |-> e.indices, round |-> e.round]

Serialize(e) ==
    CASE e.kind = "gg18_keygen" -> [typetag |-> "gg18_keygen", round |-> e.round]
      [] e.kind = "gg18_sign" -> [typetag |-> "gg18_sign", round |-> e.round]
      [] e.kind = "musig2_keygen" ->
            [typetag |-> "musig2_keygen", round |-> e.round, with_card |-> e.with_card]
      [] e.kind = "musig2_sign" ->
            [typetag |-> "musig2_sign", setup |-> e.setup,
             initial_signer |-> e.initial_signer, message |-> e.message,
             indices |-> e.indices, round |-> e.round]

\* a restore that reads the typetag and the round and nothing else
Deserialize_round_only(json) ==
    Engine(json.typetag, json.round, FALSE, NoSetup, NoSigner, None, None)

Deserialize(json) ==
    CASE json.typetag = "gg18_keygen" ->
            Engine("gg18_keygen", json.round, FALSE, NoSetup, NoSigner, None, None)
      [] json.typetag = "gg18_sign" ->
            Engine("gg18_sign", json.round, FALSE, NoSetup, NoSigner, None, None)
      [] json.typetag = "musig2_keygen" ->
            Engine("musig2_keygen", json.round, json.with_card, NoSetup, NoSigner, None, None)
      [] json.typetag = "musig2_sign" ->
            Engine("musig2_sign", json.round, FALSE, json.setup, json.initial_signer,
                   json.message, json.indices)

---------------------------------------------------------------------------
(* The group artifact as bytes, and the sign constructors that parse it.     *)

\* the JSON text finish() of a keygen engine returns: MuSig2 writes the tuple
\* (setup, signer), a JSON array; GG18 writes the GG18SignContext struct, a
\* JSON object
GroupJson(kind, art) ==
    [json |-> IF kind = "musig2_keygen" THEN "array" ELSE "object",
     setup |-> art.setup, signer |-> art.signer]

\* ThresholdProtocol::new(group) of the sign engine of kind `kind`:
\* serde_json::from_slice(group) into (Setup, Signer) resp. GG18SignContext,
\* then .expect(..) / .unwrap()
ThresholdProtocol_new(kind, group) ==
    IF kind = "musig2_sign"
    THEN IF group.json = "array"
         THEN [eng |-> musig2_SignContext_new(group), res |-> OkArt(NoArt)]
         ELSE [eng |-> R0, res |-> Panic("could not deserialize group context")]
    ELSE IF group.json = "object"
         THEN [eng |-> gg18_SignContext_new(group), res |-> OkArt(NoArt)]
         ELSE [eng |-> R0, res |-> Panic("unwrap on an Err value")]

---------------------------------------------------------------------------
(* The outbound codec of src/src/protocol/mod.rs.  A wire envelope is the    *)
(* ClientMessage that the bytes of encode_to_vec() decode to; a HashMap is a *)
(* function on the set of its keys (the empty map: <<>>).                    *)

\* ClientMessage { protocol_type, unicasts, broadcast }
ClientMessage(protocol_type, unicasts, broadcast) ==
    [protocol_type |-> protocol_type, unicasts |-> unicasts, broadcast |-> broadcast]

\* serde_json::to_vec(value): the JSON text of the value
ToJson(value) == [json |-> value]

encode_raw_bcast(message, protocol_type) ==
    ClientMessage(protocol_type, <<>>, Some(message))

serialize_bcast(value, protocol_type) ==
    encode_raw_bcast(ToJson(value), protocol_type)

encode_raw_uni(messages, protocol_type) ==
    ClientMessage(protocol_type, messages, None)

\* kvs.into_iter().map(..).collect::<HashMap>(): a later pair replaces an
\* earlier one of the same key
RECURSIVE CollectJson(_)
CollectJson(kvs) ==
    IF kvs = <<>> THEN <<>>
    ELSE LET m == CollectJson(SubSeq(kvs, 1, Len(kvs) - 1))
             kv == kvs[Len(kvs)]
         IN  [k \in DOMAIN m \cup {kv[1]} |-> IF k = kv[1] THEN ToJson(kv[2]) ELSE m[k]]

serialize_uni(kvs, protocol_type) ==
    encode_raw_uni(CollectJson(kvs), protocol_type)

---------------------------------------------------------------------------
(* The handle and the calls of the host *)

\* group contexts (Setup, Signer) as a finished keygen returns them
GroupContexts ==
    {[setup |-> Setup(MaxPeer, MaxPeer, 1),
      signer |-> [key |-> k, agg |-> Keys, phase |-> 0]] : k \in Keys}

\* the engines protocol_keygen / protocol_init can put behind a handle
NewEngines ==
    {gg18_KeygenContext_new, musig2_KeygenContext_new, musig2_KeygenContext_with_card}
    \cup {gg18_SignContext_new(g) : g \in GroupContexts}
    \cup {musig2_SignContext_new(g) : g \in GroupContexts}

\* a call of the host: the operation, the bytes passed and what it returned
NoData == [tag |-> "none"]
Call(op, data, res) == [op |-> op, data |-> data, res |-> res]

\* what `last` keeps of the bytes passed to advance: the session-init record
\* when the call was a first advance (round R0), else only the message type
Seen(e, data) ==
    IF e.round.name = "R0" /\ data.tag \in {"ProtocolGroupInit", "ProtocolInit"}
    THEN data
    ELSE [tag |-> "other", of |-> data.tag]

Init ==
    /\ engine \in NewEngines
    /\ alive = "live"
    /\ last = Call("new", NoData, OkArt(NoArt))
    /\ snap = None
    /\ nAdv = 0
    /\ firstErr = None
    /\ net = None
    /\ sl = None
    /\ probe = None

\* Protocol::advance on the live handle; a panic ends the process
Advance(data, rnd) ==
    LET r == Protocol_advance(engine, data, rnd) IN
    /\ engine' = r.eng
    /\ alive' = IF r.res.tag = "panic" THEN "crashed" ELSE "live"
    /\ last' = Call("advance", Seen(engine, data), r.res)
    /\ nAdv' = IF r.res.tag = "ok" THEN nAdv + 1 ELSE nAdv
    /\ firstErr' = IF firstErr = None /\ r.res.tag = "err"
                   THEN Some(r.res.err) ELSE firstErr
    /\ UNCHANGED <<snap, ovars>>

\* the host passes a session-init record (or garbage); the library draws rnd
protocol_advance_init ==
    /\ alive = "live"
    /\ \E data \in SessionInits, rnd \in Rnds : Advance(data, rnd)

\* the host passes a server message; no round that decodes one draws anything
protocol_advance_round ==
    /\ alive = "live"
    /\ \E data \in ServerMessages : Advance(data, Rnd(1, TRUE, AscendingOrder))

\* a finish that hands the handle back to the host when the engine refuses
protocol_finish_keeps_on_error ==
    /\ alive = "live"
    /\ alive' = (IF Protocol_finish(engine).tag = "ok" THEN "consumed" ELSE "live")
    /\ last' = Call("finish", NoData, Protocol_finish(engine))
    /\ UNCHANGED <<engine, snap, nAdv, firstErr, ovars>>

\* Protocol::finish(self: Box<Self>): the Box is taken whatever the result
\* (protocol_finish: Box::from_raw(proto_ptr)); `engine` keeps its last value
protocol_finish ==
    /\ alive = "live"
    /\ alive' = "consumed"
    /\ last' = Call("finish", NoData, Protocol_finish(engine))
    /\ UNCHANGED <<engine, snap, nAdv, firstErr, ovars>>

\* a protocol_serialize that borrows the handle and leaves it with the host
protocol_serialize_borrowing ==
    /\ alive = "live"
    /\ alive' = "live"
    /\ snap' = Some(Serialize(engine))
    /\ last' = Call("serialize", NoData, OkArt(NoArt))
    /\ UNCHANGED <<engine, nAdv, firstErr, ovars>>

\* protocol_serialize: takes the Box, returns the JSON bytes; `engine` keeps
\* what the released handle held
protocol_serialize ==
    /\ alive = "live"
    /\ alive' = "serialized"
    /\ snap' = Some(Serialize(engine))
    /\ last' = Call("serialize", NoData, OkArt(NoArt))
    /\ UNCHANGED <<engine, nAdv, firstErr, ovars>>

\* protocol_deserialize: a new handle from the bytes the host kept
protocol_deserialize ==
    /\ alive = "serialized"
    /\ alive' = "live"
    /\ engine' = Deserialize(snap[1])
    /\ snap' = None
    /\ last' = Call("deserialize", NoData, OkArt(NoArt))
    /\ UNCHANGED <<nAdv, firstErr, ovars>>

Next ==
    \/ protocol_advance_init
    \/ protocol_advance_round
    \/ protocol_finish
    \/ protocol_serialize
    \/ protocol_deserialize

Spec == Init /\ [][Next]_vars

---------------------------------------------------------------------------
(* A run of n MuSig2 engines through the in-memory server of the test        *)
(* harness: KeygenProtocolTest::run and ThresholdProtocolTest::run of        *)
(* src/src/protocol/mod.rs, as driven by tests::keygen and tests::sign of    *)
(* src/src/protocol/musig2.rs.                                               *)

\* const ROUNDS of KeygenProtocolTest / ThresholdProtocolTest for MuSig2
KEYGEN_ROUNDS == 2
SIGN_ROUNDS == 3

\* the single handle of Spec, left as constructed
HandleIdle ==
    /\ engine = gg18_KeygenContext_new
    /\ alive = "live"
    /\ last = Call("new", NoData, OkArt(NoArt))
    /\ snap = None
    /\ nAdv = 0
    /\ firstErr = None

NetParties == 1..net.n

\* ProtocolGroupInit { protocol_type: PROTOCOL_TYPE, index, parties, threshold }
NetGroupInit(i) ==
    [tag |-> "ProtocolGroupInit", protocol_type |-> "Musig2",
     parties |-> net.n, threshold |-> net.n, index |-> i]

\* ProtocolInit { protocol_type: PROTOCOL_TYPE, indices, index, data }
NetProtocolInit(i) ==
    [tag |-> "ProtocolInit", protocol_type |-> "Musig2",
     indices |-> Ascending(net.n), index |-> i, data |-> net.data]

\* ServerMessage for party idx: the broadcast of every sender other than idx
NetServerMessage(idx) ==
    [tag |-> "ServerMessage", protocol_type |-> "Musig2",
     broadcasts |-> [sender \in NetParties \ {idx} |-> net.messages[sender]]]

\* key shares already drawn by the Signer::new() of the parties
NetKeysDrawn ==
    {net.ctxs[i].round.signer.key : i \in {j \in NetParties : net.ctxs[j].round.name # "R0"}}

NetInit ==
    /\ HandleIdle
    /\ sl = None
    /\ probe = None
    /\ \E n \in 2..MaxParties :
          net = [phase |-> "keygen", n |-> n, round |-> 0, data |-> <<>>,
                 ctxs |-> [i \in 1..n |-> musig2_KeygenContext_new],
                 moved |-> {},
                 messages |-> [i \in 1..n |-> None],
                 next |-> [i \in 1..n |-> None],
                 pks |-> [i \in 1..n |-> None],
                 results |-> [i \in 1..n |-> Err("not run")]]

\* one ctx.advance(..).unwrap() of the harness, for the party i the iteration
\* over ctxs has come to: its engine is advanced and its message collected;
\* when every party has moved the collected messages become those of the
\* round; an Err (or a panic of the engine) makes the unwrap panic
NetStep(i, data, rnd) ==
    \E r \in {Protocol_advance(net.ctxs[i], data, rnd)} :
    LET msgs == [net.next EXCEPT ![i] = r.res.out]
        done == net.moved \cup {i} = NetParties
    IN  /\ net' = IF r.res.tag # "ok"
                  THEN [net EXCEPT !.phase = "panicked", !.ctxs[i] = r.eng]
                  ELSE [net EXCEPT !.ctxs[i] = r.eng, !.next[i] = r.res.out,
                                   !.moved = IF done THEN {} ELSE @ \cup {i},
                                   !.messages = IF done THEN msgs ELSE @,
                                   !.round = IF done THEN @ + 1 ELSE @]
        /\ UNCHANGED <<hvars, sl, probe>>

\* round 1 of keygen: every party advances on the session-init record; the
\* shares drawn are distinct, in the order of the parties or in another
\* (party i draws share i or share n + 1 - i)
NetKeygenInit ==
    /\ net.phase = "keygen"
    /\ net.round = 0
    /\ \E i \in NetParties : \E k \in {i, net.n + 1 - i} :
          /\ i \notin net.moved
          /\ k \notin NetKeysDrawn
          /\ NetStep(i, NetGroupInit(i), Rnd(k, TRUE, AscendingOrder))

\* round 1 of sign: every party advances on the session-init record
NetSignInit ==
    /\ net.phase = "sign"
    /\ net.round = 0
    /\ \E i \in NetParties, ok \in BOOLEAN :
          /\ i \notin net.moved
          /\ NetStep(i, NetProtocolInit(i), Rnd(1, ok, AscendingOrder))

\* the following ROUNDS - 1 rounds: every party advances on the messages the
\* other parties sent in the round before
NetRound ==
    /\ net.phase \in {"keygen", "sign"}
    /\ net.round >= 1
    /\ net.round < (IF net.phase = "keygen" THEN KEYGEN_ROUNDS ELSE SIGN_ROUNDS)
    /\ \E i \in NetParties :
          /\ i \notin net.moved
          /\ \E data \in {NetServerMessage(i)} :
                NetStep(i, data, Rnd(1, TRUE, AscendingOrder))

\* end of KeygenProtocolTest::run: pks are the last broadcasts, results the
\* artifacts of Box::new(ctx).finish().unwrap()
NetKeygenFinish ==
    /\ net.phase = "keygen"
    /\ net.round = KEYGEN_ROUNDS
    /\ net' = [net EXCEPT !.phase = "keygen_done",
                          !.pks = net.messages,
                          !.results = [i \in NetParties |-> Protocol_finish(net.ctxs[i])]]
    /\ UNCHANGED <<hvars, sl, probe>>

\* start of ThresholdProtocolTest::run: Self::new(&ctx) on every keygen artifact
NetSignNew ==
    /\ net.phase = "keygen_done"
    /\ \A i \in NetParties : net.results[i].tag = "ok"
    /\ \E data \in Messages :
          net' = [net EXCEPT !.phase = "sign", !.round = 0, !.data = data,
                             !.ctxs = [i \in NetParties |->
                                          musig2_SignContext_new(net.results[i].art)],
                             !.messages = [i \in NetParties |-> None],
                             !.next = [i \in NetParties |-> None]]
    /\ UNCHANGED <<hvars, sl, probe>>

\* end of ThresholdProtocolTest::run: Box::new(ctx).finish().unwrap() of every party
NetSignFinish ==
    /\ net.phase = "sign"
    /\ net.round = SIGN_ROUNDS
    /\ net' = [net EXCEPT !.phase = "sign_done",
                          !.results = [i \in NetParties |-> Protocol_finish(net.ctxs[i])]]
    /\ UNCHANGED <<hvars, sl, probe>>

NetNext ==
    \/ NetKeygenInit
    \/ NetRound
    \/ NetKeygenFinish
    \/ NetSignNew
    \/ NetSignInit
    \/ NetSignFinish

SpecNet == NetInit /\ [][NetNext]_vars

\* NetRound can be taken: a round of the loop is under way and some party has
\* not moved in it (NetStep always yields a next state)
NetRoundEnabled ==
    /\ net.phase \in {"keygen", "sign"}
    /\ net.round >= 1
    /\ net.round < (IF net.phase = "keygen" THEN KEYGEN_ROUNDS ELSE SIGN_ROUNDS)
    /\ net.moved # NetParties

\* the harness is a sequential loop that runs to its end: whenever one of its
\* calls can be made, it is made.  The last conjunct is WF_vars(NetRound)
\* with ENABLED <<NetRound>>_vars written out as NetRoundEnabled.
SpecNetFair ==
    /\ NetInit /\ [][NetNext]_vars
    /\ WF_vars(NetKeygenInit) /\ WF_vars(NetKeygenFinish)
    /\ WF_vars(NetSignNew) /\ WF_vars(NetSignInit) /\ WF_vars(NetSignFinish)
    /\ ([]<>(~NetRoundEnabled) \/ []<><<NetRound>>_vars)

---------------------------------------------------------------------------
(* One engine driven call by call, each intermediate advance computed under  *)
(* two iteration orders of the broadcasts map (Protocol::advance of          *)
(* src/src/protocol/musig2.rs; HashMap::values() fixes no order).            *)

\* the orders in which a HashMap keyed by the peers may be iterated
RECURSIVE Orders(_)
Orders(S) ==
    IF S = {} THEN {<<>>}
    ELSE UNION {{<<x>> \o o : o \in Orders(S \ {x})} : x \in S}

\* what a peer may send besides whole chunks: the first byte of the nonce
\* chunk of signer s, or the remaining bytes of that chunk
FragmentPayloads(p) ==
    (IF p = 1 THEN {Payload("head", 1, 0, {MaxPeer}, <<>>)} ELSE {})
    \cup (IF p = MaxPeer
          THEN {Payload("tail", PUBNONCE_CHUNK_LEN - 1, MaxPeer, {MaxPeer}, <<>>)}
          ELSE {})

\* server messages whose payloads need not be whole chunks
FnServerMessages ==
    {[tag |-> "ServerMessage", protocol_type |-> pt, broadcasts |-> b] :
        pt \in ProtocolTypes,
        b \in {f \in [Peers -> {None} \cup UNION {{Some(x) : x \in PeerPayloads(p)
                                                     \cup FragmentPayloads(p)} : p \in Peers}] :
                 \A p \in Peers :
                    \/ f[p] = None
                    \/ f[p][1] \in FragmentPayloads(p)
                    \/ /\ f[p][1] \in PeerPayloads(p)
                       /\ f[p][1].t = "ok"
                       /\ f[p][1].idx = p \/ (p = MaxPeer /\ f[p][1].idx = 1)}}

\* SecureLayer: session state, session key, the share dispatchers, the kind
SecureLayer_new(state, shares, kind) ==
    [state |-> state,
     key |-> IF state = "CertSwap" THEN None ELSE Some("pinned"),
     shares |-> shares,
     kind |-> kind]

\* enum ProtocolId
ProtocolIds == {"Gg18", "Elgamal", "Frost", "Musig2"}

\* a fresh engine of elgamal.rs or frost.rs: its kind, the initial round, the
\* with_card flag
Protocol_other(kind, with_card) ==
    Engine(kind, R0, with_card, NoSetup, NoSigner, None, None)

\* the closure build_proto of protocol_keygen, all protocol features compiled
\* in: the engine it boxes, None where it panics
keygen_build_proto(proto_id, with_card) ==
    CASE proto_id = "Gg18" /\ ~with_card -> Some(gg18_KeygenContext_new)
      [] proto_id = "Elgamal" /\ ~with_card -> Some(Protocol_other("elgamal_keygen", FALSE))
      [] proto_id = "Frost" /\ ~with_card -> Some(Protocol_other("frost_keygen", FALSE))
      [] proto_id = "Frost" /\ with_card -> Some(Protocol_other("frost_keygen", TRUE))
      [] proto_id = "Musig2" /\ ~with_card -> Some(musig2_KeygenContext_new)
      [] proto_id = "Musig2" /\ with_card -> Some(musig2_KeygenContext_with_card)
      [] OTHER -> None

\* what a constructor of the boundary gives the host: the handle (res ok, h the
\* SecureLayer in it) or none, the call having panicked
Handle(l) == [res |-> OkArt(NoArt), h |-> l]
NoHandle(e) == [res |-> Panic(e), h |-> SecureLayer_new("Closed", <<>>, "none")]

\* a protocol_keygen whose session starts past the certificate swap
protocol_keygen_no_swap(proto_id, with_card, shares) ==
    LET b == keygen_build_proto(proto_id, with_card) IN
    IF shares > 0 /\ b = None THEN NoHandle("Protocol not supported")
    ELSE Handle(SecureLayer_new("Init", [k \in 1..shares |-> b[1]], proto_id))

\* protocol_keygen(proto_id, certs, pkcs12, with_card, shares):
\* (0..shares).map(build_proto) calls the closure once per share, so not at
\* all when shares is 0
protocol_keygen(proto_id, with_card, shares) ==
    LET b == keygen_build_proto(proto_id, with_card) IN
    IF shares > 0 /\ b = None THEN NoHandle("Protocol not supported")
    ELSE Handle(SecureLayer_new("CertSwap", [k \in 1..shares |-> b[1]], proto_id))

\* the group record handed to protocol_init: JSON of a Vec<Vec<u8>> (json =
\* "array") holding the artifacts, or bytes that are no such JSON
GroupRecord(json, arts) == [json |-> json, arts |-> arts]

\* the closure build_proto of protocol_init on one artifact
init_build_proto(proto_id, share_ser) ==
    CASE proto_id = "Gg18" -> ThresholdProtocol_new("gg18_sign", share_ser)
      [] proto_id = "Musig2" -> ThresholdProtocol_new("musig2_sign", share_ser)
      [] proto_id = "Elgamal" ->
            [eng |-> Protocol_other("elgamal_decrypt", FALSE), res |-> OkArt(NoArt)]
      [] proto_id = "Frost" ->
            [eng |-> Protocol_other("frost_sign", FALSE), res |-> OkArt(NoArt)]

\* a protocol_init that walks the slice from its end
protocol_init_reversed(proto_id, group_ser, shares) ==
    IF group_ser.json # "array" THEN NoHandle("unwrap on an Err value")
    ELSE IF shares > Len(group_ser.arts)
    THEN NoHandle("range end index out of range for slice")
    ELSE LET built == [k \in 1..shares |->
                          init_build_proto(proto_id, group_ser.arts[shares + 1 - k])]
         IN  IF \E k \in 1..shares : built[k].res.tag = "panic"
             THEN NoHandle("could not deserialize group context")
             ELSE Handle(SecureLayer_new("Init", [k \in 1..shares |-> built[k].eng],
                                         proto_id))

\* a protocol_init that builds from as many artifacts as the record holds when
\* asked for more
protocol_init_clamped(proto_id, group_ser, shares) ==
    IF group_ser.json # "array" THEN NoHandle("unwrap on an Err value")
    ELSE LET n == IF shares > Len(group_ser.arts) THEN Len(group_ser.arts) ELSE shares
             built == [k \in 1..n |-> init_build_proto(proto_id, group_ser.arts[k])]
         IN  IF \E k \in 1..n : built[k].res.tag = "panic"
             THEN NoHandle("could not deserialize group context")
             ELSE Handle(SecureLayer_new("Init", [k \in 1..n |-> built[k].eng],
                                         proto_id))

\* protocol_init(proto_id, group, certs, pkcs12, shares): the record is
\* unwrapped, shares_ser[..shares] is sliced (a panic past the end), each
\* artifact of the slice is built in order
protocol_init(proto_id, group_ser, shares) ==
    IF group_ser.json # "array" THEN NoHandle("unwrap on an Err value")
    ELSE IF shares > Len(group_ser.arts)
    THEN NoHandle("range end index out of range for slice")
    ELSE LET built == [k \in 1..shares |->
                          init_build_proto(proto_id, group_ser.arts[k])]
         IN  IF \E k \in 1..shares : built[k].res.tag = "panic"
             THEN NoHandle("could not deserialize group context")
             ELSE Handle(SecureLayer_new("Init", [k \in 1..shares |-> built[k].eng],
                                         proto_id))

NoCall == [eng |-> R0, res |-> Err("no call")]
Probe(op, e, data, o1, o2, r1, r2) ==
    [op |-> op, e |-> e, data |-> data, o1 |-> o1, o2 |-> o2, r1 |-> r1, r2 |-> r2,
     env |-> None]
\* a call of a codec function beside engine e: its input and the envelope
Encoded(op, e, data, env) ==
    [op |-> op, e |-> e, data |-> data, o1 |-> <<>>, o2 |-> <<>>, r1 |-> NoCall,
     r2 |-> NoCall, env |-> Some(env)]
EncodeOps == {"encode_raw_bcast", "serialize_bcast", "encode_raw_uni", "serialize_uni"}

\* the byte strings and values handed to the codec, and the mappings of them
RawMessages == {<<>>, <<104>>}
RawMaps == UNION {[S -> RawMessages] : S \in SUBSET Peers}
KvSeqs == {<<>>} \cup {<<kv>> : kv \in Peers \X Keys}
              \cup {<<kv1, kv2>> : kv1 \in Peers \X {1}, kv2 \in Peers \X Keys}

FnInit ==
    /\ HandleIdle /\ net = None /\ sl = None
    /\ \E e \in NewEngines : probe = Probe("new", e, NoData, <<>>, <<>>, NoCall, NoCall)

\* the first advance of the engine: no map is iterated
FnAdvanceInit ==
    /\ probe.e.round.name = "R0"
    /\ \E data \in SessionInits, rnd \in Rnds :
          LET r == Protocol_advance(probe.e, data, rnd) IN
          probe' = Probe("init", r.eng, data, <<>>, <<>>, r, r)
    /\ UNCHANGED <<hvars, net, sl>>

\* an intermediate advance on the same bytes, the map iterated in ascending
\* order and in order o2
FnAdvanceRound ==
    /\ probe.op \in {"new", "init"}
    /\ probe.e.round.name \notin {"R0", "Done"}
    /\ \E data \in FnServerMessages, o2 \in Orders(Peers) :
          LET o1 == Ascending(MaxPeer)
              r1 == Protocol_advance(probe.e, data, Rnd(1, TRUE, o1))
              r2 == Protocol_advance(probe.e, data, Rnd(1, TRUE, o2))
          IN  probe' = Probe("advance", probe.e, data, o1, o2, r1, r2)
    /\ UNCHANGED <<hvars, net, sl>>

\* the host goes on with the engine as the call left it, under either order
FnContinue ==
    /\ probe.op = "advance"
    /\ \E r \in {probe.r1, probe.r2} :
          /\ r.res.tag # "panic"
          /\ probe' = Probe("init", r.eng, NoData, <<>>, <<>>, r, r)
    /\ UNCHANGED <<hvars, net, sl>>

\* the codec functions, applied before the engine's first call
FnEncodeBcast ==
    /\ probe.op \in {"new"} \cup EncodeOps
    /\ \E pt \in ProtocolTypes :
          \/ \E message \in RawMessages :
                probe' = Encoded("encode_raw_bcast", probe.e, message,
                                 encode_raw_bcast(message, pt))
          \/ \E value \in Keys :
                probe' = Encoded("serialize_bcast", probe.e, value,
                                 serialize_bcast(value, pt))
    /\ UNCHANGED <<hvars, net, sl>>

FnEncodeUni ==
    /\ probe.op \in {"new"} \cup EncodeOps
    /\ \E pt \in ProtocolTypes :
          \/ \E messages \in RawMaps :
                probe' = Encoded("encode_raw_uni", probe.e, messages,
                                 encode_raw_uni(messages, pt))
          \/ \E kvs \in KvSeqs :
                probe' = Encoded("serialize_uni", probe.e, kvs,
                                 serialize_uni(kvs, pt))
    /\ UNCHANGED <<hvars, net, sl>>

\* protocol_init: the artifact of the finished keygen engine is handed to the
\* sign constructor of kind `kind`
FnSignNew ==
    /\ probe.op \in {"init", "sign_new"}
    /\ probe.e.kind \in {"gg18_keygen", "musig2_keygen"}
    /\ Protocol_finish(probe.e).tag = "ok"
    /\ \E kind \in {"gg18_sign", "musig2_sign"} :
          LET art == Protocol_finish(probe.e).art
              r == ThresholdProtocol_new(kind, GroupJson(probe.e.kind, art))
          IN  probe' = Probe("sign_new",
                             IF r.res.tag = "ok" THEN r.eng ELSE probe.e,
                             [tag |-> "group", kind |-> kind, from |-> probe.e.kind,
                              art |-> art],
                             <<>>, <<>>, r, r)
    /\ UNCHANGED <<hvars, net, sl>>

\* the artifacts a group record may hold, and the records of up to MaxShares
\* of them
ShareArtifacts ==
    {GroupJson(from, g) : from \in {"gg18_keygen", "musig2_keygen"}, g \in GroupContexts}
GroupRecords ==
    {GroupRecord("junk", <<>>)}
    \cup UNION {{GroupRecord("array", arts) : arts \in [1..n -> ShareArtifacts]} :
                   n \in 0..MaxShares}

\* what the probe keeps of a constructor call: its arguments in data, the
\* outcome and the handle in r1 = r2
Constructed(op, e, data, r) ==
    Probe(op, e, data, <<>>, <<>>, [eng |-> e, res |-> r.res, h |-> r.h],
          [eng |-> e, res |-> r.res, h |-> r.h])

\* protocol_keygen called by the host
FnProtocolKeygen ==
    /\ probe.op = "new"
    /\ \E proto_id \in ProtocolIds, with_card \in BOOLEAN, shares \in 0..MaxShares :
          probe' = Constructed("protocol_keygen", probe.e,
                               [tag |-> "keygen", proto_id |-> proto_id,
                                with_card |-> with_card, shares |-> shares],
                               protocol_keygen(proto_id, with_card, shares))
    /\ UNCHANGED <<hvars, net, sl>>

\* protocol_init called by the host on a group record
FnProtocolInit ==
    /\ probe.op = "new"
    /\ \E proto_id \in ProtocolIds, group_ser \in GroupRecords,
          shares \in 0..(MaxShares + 1) :
          probe' = Constructed("protocol_init", probe.e,
                               [tag |-> "init", proto_id |-> proto_id,
                                group |-> group_ser, shares |-> shares],
                               protocol_init(proto_id, group_ser, shares))
    /\ UNCHANGED <<hvars, net, sl>>

FnNext ==
    \/ FnAdvanceInit
    \/ FnAdvanceRound
    \/ FnContinue
    \/ FnEncodeBcast
    \/ FnEncodeUni
    \/ FnSignNew
    \/ FnProtocolKeygen
    \/ FnProtocolInit

SpecFn == FnInit /\ [][FnNext]_vars


---------------------------------------------------------------------------
(* A handle holding several shares: struct Protocol { inner: SecureLayer }   *)
(* of src/src/c_api.rs.  SecureLayer (crate::security) is described by the   *)
(* design document section 4.5; the engines behind it are the MuSig2 ones,   *)
(* whose advance returns the (bytes, Recipient) pair the handle passes on.   *)

\* bytes the host passes in: a peer certificate bundle (ok: it verifies against
\* the pinned anchors) or a frame (ok: it authenticates under the session key)
\* around the cleartext body
CertBundle(ok) == [kind |-> "cert", ok |-> ok, body |-> NoData]
Frame(ok, body) == [kind |-> "frame", ok |-> ok, body |-> body]

\* what advance_share returns: the result of the step and, when Ok, the bytes
\* (sealed: encrypted under the session key) and the recipient
SlOk(sealed, body, rec) ==
    [tag |-> "ok", err |-> "", sealed |-> sealed, body |-> body, rec |-> rec]
SlErr(e) == [tag |-> "err", err |-> e, sealed |-> FALSE, body |-> None, rec |-> "none"]
SlPanic(e) == [tag |-> "panic", err |-> e, sealed |-> FALSE, body |-> None, rec |-> "none"]
TransportAuthFailed == "transport-auth-failed"

\* SecureLayer::advance_share(i, data_in)
SecureLayer_advance_share(l, i, data_in, rnd) ==
    IF l.state = "Closed"
    THEN [sl |-> l, res |-> SlErr(TransportAuthFailed)]
    ELSE IF l.state = "CertSwap"
    THEN IF data_in.kind = "cert" /\ data_in.ok
         THEN [sl |-> [l EXCEPT !.state = "Running", !.key = Some("derived")],
               res |-> SlOk(FALSE, Some(CertBundle(TRUE)), "Server")]
         ELSE [sl |-> [l EXCEPT !.state = "Closed"], res |-> SlErr(TransportAuthFailed)]
    ELSE IF data_in.kind # "frame" \/ ~data_in.ok
    THEN [sl |-> [l EXCEPT !.state = "Closed"], res |-> SlErr(TransportAuthFailed)]
    ELSE LET r == Protocol_advance(l.shares[i], data_in.body, rnd) IN
         [sl |-> [l EXCEPT !.shares[i] = r.eng],
          res |-> CASE r.res.tag = "ok" ->
                         SlOk(r.res.rec = "Server", r.res.out, r.res.rec)
                    [] r.res.tag = "err" -> SlErr(r.res.err)
                    [] OTHER -> SlPanic(r.res.err)]

\* SecureLayer::finish_all(): finish() of every dispatcher, in order; the
\* artifacts when all are Ok, else the first error
RECURSIVE FinishEach(_)
FinishEach(shares) ==
    IF shares = <<>> THEN <<>>
    ELSE <<Protocol_finish(Head(shares))>> \o FinishEach(Tail(shares))

SecureLayer_finish_all(l) ==
    LET rs == FinishEach(l.shares)
        bad == {k \in DOMAIN rs : rs[k].tag # "ok"}
    IN  IF bad = {} THEN [tag |-> "ok", err |-> "", arts |-> [k \in DOMAIN rs |-> rs[k].art]]
        ELSE [tag |-> "err",
              err |-> rs[CHOOSE k \in bad : \A m \in bad : k <= m].err,
              arts |-> <<>>]

\* impl From<protocol::Recipient> for Recipient
RecipientFrom(rec) == IF rec = "Card" THEN "Card" ELSE "Server"

\* set_error(error_out, error): writes the slot unless the pointer is null
set_error(supplied, slot, error) == IF supplied THEN Some(error) ELSE slot

\* a protocol_advance that builds its Buffer from the bytes alone
\* (impl From<Vec<u8>> for Buffer), on either arm
protocol_advance_from_vec(res, supplied, slot) ==
    IF res.tag = "ok"
    THEN [vec |-> Some([sealed |-> res.sealed, body |-> res.body]),
          rec |-> "Unknown", slot |-> slot]
    ELSE [vec |-> None, rec |-> "Unknown", slot |-> set_error(supplied, slot, res.err)]

\* protocol_advance: the Buffer returned (vec: None is the empty buffer) and
\* the error slot after the call
protocol_advance(res, supplied, slot) ==
    IF res.tag = "ok"
    THEN [vec |-> Some([sealed |-> res.sealed, body |-> res.body]),
          rec |-> RecipientFrom(res.rec), slot |-> slot]
    ELSE [vec |-> None, rec |-> "Unknown", slot |-> set_error(supplied, slot, res.err)]

\* a protocol_finish that returns the last share's artifact alone
protocol_finish_last(res, supplied, slot) ==
    IF res.tag = "ok"
    THEN [vec |-> Some(ToJson(<<res.arts[Len(res.arts)]>>)), rec |-> "Unknown",
          slot |-> slot]
    ELSE [vec |-> None, rec |-> "Unknown", slot |-> set_error(supplied, slot, res.err)]

\* protocol_finish: serde_json::to_vec(&vec_data_out) or the empty buffer,
\* .into() a Buffer
protocol_finish_all(res, supplied, slot) ==
    IF res.tag = "ok"
    THEN [vec |-> Some(ToJson(res.arts)), rec |-> "Unknown", slot |-> slot]
    ELSE [vec |-> None, rec |-> "Unknown", slot |-> set_error(supplied, slot, res.err)]

\* the bodies a peer's frame may carry for a MuSig2 share: a session-init of
\* an n-of-n run (of either kind), well-formed broadcasts of the other peers
SlSessionInits ==
    {d \in GroupInits : d.parties = d.threshold /\ d.index = 1}
    \cup {d \in SignInits : d.indices # <<>> /\ d.index = 1 /\ d.data # <<>>
                              /\ d.protocol_type = "Musig2"}
SlServerMessages ==
    {m \in ServerMessages :
        /\ m.protocol_type = "Musig2"
        /\ m.broadcasts[1] = None
        /\ \A p \in Peers \ {1} :
              /\ m.broadcasts[p] # None
              /\ m.broadcasts[p][1].t = "ok" /\ m.broadcasts[p][1].idx = p}
SlInputs ==
    {CertBundle(ok) : ok \in BOOLEAN}
    \cup {Frame(FALSE, Garbage)}
    \cup {Frame(TRUE, body) : body \in SlSessionInits \cup SlServerMessages}

\* the call last made on the handle, as the host sees it: share index, what
\* advance_share / finish_all returned, the Buffer, the slot before and after,
\* and what the engine of that share returns when stepped alone
NoOut == [sealed |-> FALSE, body |-> None]
SlCall(op, index, res, out, buf, supplied, before, alone) ==
    [op |-> op, index |-> index, tag |-> res.tag, err |-> res.err, out |-> out,
     vec |-> buf.vec, rec |-> buf.rec, supplied |-> supplied, before |-> before,
     after |-> buf.slot, alone |-> alone]
NoSlCall ==
    [op |-> "new", index |-> 0, tag |-> "none", err |-> "", out |-> NoOut, vec |-> None,
     rec |-> "Unknown", supplied |-> FALSE, before |-> None, after |-> None,
     alone |-> None]

\* the group context of share k (protocol_init: shares_ser[..shares])
GroupOf(k) == [setup |-> Setup(MaxPeer, MaxPeer, 1),
               signer |-> [key |-> k, agg |-> 1..MaxPeer, phase |-> 0]]

\* the handle after protocol_keygen or protocol_init.  solo: each share as it
\* would be had its own calls been made on a handle holding it alone; swaps:
\* the number of certificate swaps done; advanced: protocol_advance was called
\* before; toCard: some call returned recipient card; slot: the host's error
\* slot
SlInit ==
    /\ HandleIdle /\ net = None /\ probe = None
    /\ \E s \in 1..MaxShares, with_card \in BOOLEAN, keygen \in BOOLEAN :
          LET l == IF keygen THEN protocol_keygen("Musig2", with_card, s).h
                   ELSE protocol_init("Musig2",
                            GroupRecord("array",
                                [k \in 1..s |-> GroupJson("musig2_keygen", GroupOf(k))]),
                            s).h
          IN  sl = [h |-> l, alive |-> "live", keygen |-> keygen, solo |-> l.shares,
                    swaps |-> 0, advanced |-> FALSE, toCard |-> FALSE, slot |-> None,
                    call |-> NoSlCall]

\* the key shares Signer::new() may draw in a step on data_in: only the
\* first advance of a keygen engine draws one
SlDraws(data_in) ==
    IF data_in.body.tag = "ProtocolGroupInit" THEN {1, MaxKey} ELSE {1}

\* protocol_advance on the share advance_share is handed (share), the host
\* having named index; k: the key share a Signer::new() of the step draws
SlStep(share, index, data_in, k, supplied) ==
    LET rnd == Rnd(k, TRUE, AscendingOrder)
        r == SecureLayer_advance_share(sl.h, share, data_in, rnd)
        buf == protocol_advance(r.res, supplied, sl.slot)
        stepped == sl.h.state \in {"Init", "Running"} /\ data_in.kind = "frame"
                   /\ data_in.ok
        alone == Protocol_advance(sl.solo[index], data_in.body, rnd)
    IN  sl' = [sl EXCEPT
                 !.h = r.sl,
                 !.alive = IF r.res.tag = "panic" THEN "crashed" ELSE "live",
                 !.solo[index] = IF stepped THEN alone.eng ELSE @,
                 !.swaps = IF sl.h.state = "CertSwap" /\ r.sl.state = "Running"
                           THEN @ + 1 ELSE @,
                 !.advanced = TRUE,
                 !.toCard = @ \/ buf.rec = "Card",
                 !.slot = buf.slot,
                 !.call = SlCall("advance", index, r.res,
                                 [sealed |-> r.res.sealed, body |-> r.res.body],
                                 buf, supplied, sl.slot,
                                 IF stepped THEN Some(alone.res) ELSE None)]

\* a protocol_advance that hands advance_share the first share whatever the index
SlAdvance_first_share ==
    /\ sl.alive = "live"
    /\ \E i \in DOMAIN sl.h.shares, data_in \in SlInputs, supplied \in BOOLEAN :
       \E k \in SlDraws(data_in) :
          SlStep(1, i, data_in, k, supplied)
    /\ UNCHANGED <<hvars, net, probe>>

\* protocol_advance(proto_ptr, index, data, error_out)
SlAdvance ==
    /\ sl.alive = "live"
    /\ \E i \in DOMAIN sl.h.shares, data_in \in SlInputs, supplied \in BOOLEAN :
       \E k \in SlDraws(data_in) :
          SlStep(i, i, data_in, k, supplied)
    /\ UNCHANGED <<hvars, net, probe>>

\* protocol_finish(proto_ptr, error_out): takes the Box whatever the result
SlFinish ==
    /\ sl.alive = "live"
    /\ \E supplied \in BOOLEAN :
          LET res == SecureLayer_finish_all(sl.h)
              buf == protocol_finish_all(res, supplied, sl.slot)
          IN  sl' = [sl EXCEPT
                       !.alive = "consumed",
                       !.slot = buf.slot,
                       !.call = SlCall("finish", 0, res, NoOut, buf, supplied, sl.slot,
                                       None)]
    /\ UNCHANGED <<hvars, net, probe>>

\* the host clears its error slot between two calls
SlClearSlot ==
    /\ sl.alive = "live"
    /\ sl.slot # None
    /\ sl' = [sl EXCEPT !.slot = None]
    /\ UNCHANGED <<hvars, net, probe>>

SlNext ==
    \/ SlAdvance
    \/ SlFinish
    \/ SlClearSlot

SpecShares == SlInit /\ [][SlNext]_vars

---------------------------------------------------------------------------
(* Vocabulary of the properties *)

\* the protocol kind an engine belongs to
KindProtocol(kind) == IF kind \in {"gg18_keygen", "gg18_sign"} THEN "Gg18" ELSE "Musig2"

\* the session-init record an engine's first advance decodes
ExpectedInit(kind) ==
    IF kind \in {"gg18_keygen", "musig2_keygen"} THEN "ProtocolGroupInit" ELSE "ProtocolInit"

\* the fixed sequence of round variants of each engine
RoundSeq(kind) ==
    CASE kind = "gg18_keygen" -> <<"R0", "R1", "R2", "R3", "R4", "R5", "Done">>
      [] kind = "gg18_sign" ->
            <<"R0", "R1", "R2", "R3", "R4", "R5", "R6", "R7", "R8", "R9", "Done">>
      [] kind = "musig2_keygen" -> <<"R0", "R1", "Done">>
      [] kind = "musig2_sign" -> <<"R0", "R1", "R2", "Done">>

\* position of a round variant in its engine's sequence
RoundPos(kind, name) == CHOOSE i \in 1..Len(RoundSeq(kind)) : RoundSeq(kind)[i] = name

\* rounds of the spec's table, the session-init advance counted as the first
RoundCount(kind) ==
    CASE kind = "gg18_keygen" -> 6
      [] kind = "gg18_sign" -> 10
      [] kind = "musig2_keygen" -> 2
      [] kind = "musig2_sign" -> 3

\* the artifact held by a terminal round variant
TerminalArtifact(e) ==
    [setup |-> e.round.setup, signer |-> e.round.signer, val |-> e.round.val]

SeqElems(seq) == {seq[i] : i \in 1..Len(seq)}

\* the errors of a failed decode, a failed library call and a declared-kind mismatch
FatalErrors == {DecodeError, JsonError, CryptoError, "wrong protocol type"}

---------------------------------------------------------------------------
(* C1: finish returns the final artifact if and only if the round state is   *)
(* the terminal (Done) variant; in any other round state it returns the      *)
(* error "protocol not finished".  All four engines.                         *)
C1_FinishIffDone ==
    last.op = "finish" =>
        /\ (last.res.tag = "ok") <=> (engine.round.name = "Done")
        /\ engine.round.name = "Done" => last.res = OkArt(TerminalArtifact(engine))
        /\ engine.round.name # "Done" => last.res = Err("protocol not finished")

C1_Witness ==
    /\ last.op = "finish"
    /\ last.res.tag = "ok"
    /\ engine.kind = "musig2_sign"
    /\ last.res.art.val.msg = <<104>>

(* C2: counting the session-init advance as the first, an engine is in its   *)
(* terminal state after exactly RoundCount successful advances (6, 10, 2, 3) *)
(* and not before; after fewer successful advances finish fails.             *)
C2_RoundCount ==
    /\ nAdv <= RoundCount(engine.kind)
    /\ (engine.round.name = "Done") <=> (nAdv = RoundCount(engine.kind))
    /\ (last.op = "finish" /\ nAdv < RoundCount(engine.kind)) => last.res.tag = "err"

C2_Witness ==
    /\ engine.kind = "gg18_sign"
    /\ engine.round.name = "Done"
    /\ nAdv = 10

(* C3: advance on an engine already in its terminal state returns an         *)
(* out-of-sequence error, does not crash, does not change the state, and     *)
(* finish afterwards returns the artifact it would have returned before.     *)
C3_AdvanceOnTerminal ==
    [][(alive = "live" /\ engine.round.name = "Done" /\ last'.op = "advance") =>
          /\ last'.res = Err("protocol already finished")
          /\ alive' = "live"
          /\ engine' = engine
          /\ Protocol_finish(engine') = Protocol_finish(engine)]_vars

\* a terminal GG18 keygen engine is advanced: Done => todo!()
C3_Witness ==
    /\ last.op = "advance"
    /\ engine.kind = "gg18_keygen"
    /\ engine.round.name = "Done"
    /\ last.res = Panic("not yet implemented")
    /\ alive = "crashed"

(* C4: an engine of kind K whose first advance receives a session-init       *)
(* record declaring another kind returns a wrong-protocol error and stays in *)
(* its initial round state.  All four engines.                               *)
C4_WrongKindRejected ==
    (/\ last.op = "advance"
     /\ last.data.tag = ExpectedInit(engine.kind)
     /\ last.data.protocol_type # KindProtocol(engine.kind))
    => (last.res = Err("wrong protocol type") /\ engine.round.name = "R0")

\* a GG18 keygen engine takes a session-init that declares MuSig2 and moves on
C4_Witness ==
    /\ last.op = "advance"
    /\ engine.kind = "gg18_keygen"
    /\ last.data.tag = "ProtocolGroupInit"
    /\ last.data.protocol_type = "Musig2"
    /\ last.res.tag = "ok"
    /\ engine.round.name = "R1"

(* C5: the first advance of a MuSig2 keygen engine fails with the            *)
(* wrong-session-shape error and leaves the initial state untouched whenever *)
(* parties and threshold differ as unsigned 32-bit numbers; the engine       *)
(* leaves the initial state only when the two 32-bit numbers are equal.      *)
C5_PartiesEqualThreshold32 ==
    (/\ last.op = "advance"
     /\ engine.kind = "musig2_keygen"
     /\ last.data.tag = "ProtocolGroupInit"
     /\ last.data.protocol_type = "Musig2")
    => /\ last.data.parties # last.data.threshold
            => /\ last.res = Err("number of parties must be equal to the treshold")
               /\ engine.round.name = "R0"
       /\ engine.round.name # "R0" => last.data.parties = last.data.threshold

\* parties = 65538 and threshold = 2 agree in their low 16 bits: accepted
C5_Witness ==
    /\ last.op = "advance"
    /\ engine.kind = "musig2_keygen"
    /\ last.data.tag = "ProtocolGroupInit"
    /\ last.data.parties = U16_MOD + 2
    /\ last.data.threshold = 2
    /\ last.res.tag = "ok"
    /\ engine.round.name = "R1"

(* C6: the first advance of a sign engine (GG18 sign, MuSig2 sign) fails     *)
(* with an error and leaves the engine in its initial state whenever the     *)
(* session-init's index is not a member of its indices list.                 *)
C6_IndexInIndices ==
    (/\ last.op = "advance"
     /\ engine.kind \in {"gg18_sign", "musig2_sign"}
     /\ last.data.tag = "ProtocolInit"
     /\ last.data.index \notin SeqElems(last.data.indices))
    => (last.res.tag = "err" /\ engine.round.name = "R0")

\* a MuSig2 sign engine takes index 3 with indices (1, 2) and moves on
C6_Witness ==
    /\ last.op = "advance"
    /\ engine.kind = "musig2_sign"
    /\ last.data.tag = "ProtocolInit"
    /\ last.data.index = 3
    /\ last.data.indices = <<1, 2>>
    /\ last.res.tag = "ok"
    /\ engine.round.name = "R1"


(* C7: after an advance fails with a cryptographic-library error, a decode   *)
(* error or a declared-kind mismatch, the engine is poisoned: every later    *)
(* advance and every later finish returns that same error, whatever input is *)
(* supplied.                                                                 *)
C7_Poisoned ==
    (firstErr # None /\ firstErr[1] \in FatalErrors /\ last.op \in {"advance", "finish"})
    => (last.res.tag = "err" /\ last.res.err = firstErr[1])

\* an engine whose advance once failed with a library error runs to its end
C7_Witness ==
    /\ firstErr = Some(CryptoError)
    /\ last.op = "advance"
    /\ last.res.tag = "ok"
    /\ engine.round.name = "Done"

(* C8: advance is atomic: when it returns an error every field of the engine *)
(* (round variant, and the stored message, indices and signer of MuSig2      *)
(* sign) is as before the call; when it returns bytes the round variant has  *)
(* moved by exactly one round.                                               *)
C8_AdvanceAtomic ==
    [][(alive = "live" /\ last'.op = "advance") =>
          /\ last'.res.tag = "err" => engine' = engine
          /\ last'.res.tag = "ok" =>
                RoundPos(engine.kind, engine'.round.name)
                    = RoundPos(engine.kind, engine.round.name) + 1]_vars

\* MuSig2 sign init returned an error after storing indices and message
C8_Witness ==
    /\ last.op = "advance"
    /\ engine.kind = "musig2_sign"
    /\ last.res = Err(CryptoError)
    /\ engine.round.name = "R0"
    /\ engine.message = Some(<<104>>)
    /\ engine.indices = Some(<<1, 2>>)
    /\ engine.initial_signer.phase = 1

C10_EarlyFinishKeepsHandle ==
    (last.op = "finish" /\ engine.round.name # "Done")
    => (last.res = Err("protocol not finished") /\ alive = "live")

(* C10 as amended: finish called before the terminal state returns the       *)
(* "protocol not finished" error and, like every finish, takes the handle:   *)
(* nothing can be advanced or finished on it afterwards.                     *)
C10_EarlyFinishConsumes ==
    (last.op = "finish" /\ engine.round.name # "Done")
    => (last.res = Err("protocol not finished") /\ alive = "consumed" /\ ~ENABLED Next)

C10_Witness ==
    /\ last.op = "finish"
    /\ engine.kind = "gg18_keygen"
    /\ engine.round.name = "R3"
    /\ alive = "consumed"


---------------------------------------------------------------------------
(* C11: when n MuSig2 keygen engines (threshold = n, indices 1..n) are run   *)
(* through a server that gives each party the broadcasts of all the others,  *)
(* every party's final-round broadcast carries the same aggregate public key *)
C11_KeygenAgreement ==
    net.phase = "keygen_done" =>
        \A i, j \in NetParties :
            /\ net.pks[i] # None
            /\ net.pks[i] = net.pks[j]
            /\ net.pks[i][1].v = {net.ctxs[k].round.signer.key : k \in NetParties}

C11_Witness ==
    /\ net.phase = "keygen_done"
    /\ net.n = MaxParties
    /\ Cardinality(net.pks[1][1].v) = MaxParties
    /\ net.ctxs[1].round.signer.key = MaxParties
    /\ \A i \in NetParties : net.results[i].tag = "ok"

C13_OrderIndependent ==
    probe.op = "advance" => probe.r1 = probe.r2

\* a sign engine awaiting nonces is advanced on a map in which peer 1 holds
\* the first byte and peer 2 the remaining 66 bytes of one nonce chunk: in
\* ascending order the concatenation is that chunk and the round moves on, in
\* the other order the 67 bytes are no nonce
C13_Witness ==
    /\ probe.op = "advance"
    /\ probe.e.kind = "musig2_sign" /\ probe.e.round.name = "R1"
    /\ probe.data.broadcasts[1] = Some(Payload("head", 1, 0, {MaxPeer}, <<>>))
    /\ probe.data.broadcasts[MaxPeer]
          = Some(Payload("tail", PUBNONCE_CHUNK_LEN - 1, MaxPeer, {MaxPeer}, <<>>))
    /\ probe.o1 = Ascending(MaxPeer) /\ probe.o2 # probe.o1
    /\ probe.r1.res.tag = "ok" /\ probe.r1.eng.round.name = "R2"
    /\ probe.r2.res.tag = "panic"

\* C14: every envelope the outbound codec produces has exactly one of its two
\* payload fields populated, whatever the input: broadcast present and
\* unicasts empty, or broadcast absent and unicasts with at least one entry.
C14_ExactlyOnePopulated ==
    probe.env # None =>
        LET m == probe.env[1] IN
        \/ m.broadcast # None /\ DOMAIN m.unicasts = {}
        \/ m.broadcast = None /\ DOMAIN m.unicasts # {}

\* encode_raw_uni was given the empty mapping: neither field is populated
C14_Witness ==
    /\ probe.op = "encode_raw_uni"
    /\ probe.data = <<>>
    /\ probe.env # None
    /\ probe.env[1].broadcast = None
    /\ DOMAIN probe.env[1].unicasts = {}

\* C15: protocol_advance returns recipient unknown if and only if the step
\* failed.  On failure the buffer is empty, the recipient unknown and the error
\* slot, when one is supplied, holds the error; on success the buffer holds
\* the step's bytes, the recipient is card or server and the slot is as the
\* host left it.
C15_UnknownIffFailed ==
    sl.call.op = "advance" /\ sl.call.tag # "panic" =>
        /\ sl.call.rec = "Unknown" <=> sl.call.tag = "err"
        /\ sl.call.tag = "err" =>
              /\ sl.call.vec = None
              /\ sl.call.after = IF sl.call.supplied THEN Some(sl.call.err)
                                 ELSE sl.call.before
        /\ sl.call.tag = "ok" =>
              /\ sl.call.vec = Some(sl.call.out)
              /\ sl.call.rec \in {"Card", "Server"}
              /\ sl.call.after = sl.call.before

\* a step that succeeded after an earlier failure had filled the slot: the
\* slot still holds the earlier error
C15_Witness ==
    /\ sl.call.op = "advance"
    /\ sl.call.tag = "ok" /\ sl.call.rec = "Server"
    /\ sl.call.out.sealed /\ sl.call.out.body[1].len = PUBKEY_LEN
    /\ sl.call.supplied
    /\ sl.call.before = Some("wrong protocol type")
    /\ sl.call.after = sl.call.before

\* C16: past the certificate swap, advancing share i leaves the round state of
\* every other share unchanged; each share is in the state, returns the
\* result and ends with the artifact it would have had its calls been made
\* alone, whatever calls on other shares came in between.
C16_SharesIndependent ==
    [][/\ sl'.call.op = "advance" /\ sl.h.state # "CertSwap" =>
             /\ \A j \in DOMAIN sl.h.shares :
                   j # sl'.call.index => sl'.h.shares[j] = sl.h.shares[j]
             /\ sl'.call.alone # None =>
                   /\ sl'.call.tag = sl'.call.alone[1].tag
                   /\ sl'.call.out.body = sl'.call.alone[1].out
       /\ sl'.h.shares = sl'.solo
       /\ sl'.call.op = "finish" /\ sl'.call.tag = "ok" =>
             sl'.call.vec = Some(ToJson([k \in DOMAIN sl.solo |->
                                            Protocol_finish(sl.solo[k]).art]))
      ]_vars

\* the last share was stepped to its second round while the first share, in
\* its terminal round, stayed as it was
C16_Witness ==
    /\ Len(sl.h.shares) = MaxShares
    /\ sl.call.op = "advance" /\ sl.call.index = MaxShares /\ sl.call.tag = "ok"
    /\ sl.h.shares[MaxShares].round.name = "R2"
    /\ sl.h.shares[1].round.name = "Done"

C18_FinishAll ==
    sl.call.op = "finish" =>
        IF \A k \in DOMAIN sl.h.shares : sl.h.shares[k].round.name = "Done"
        THEN /\ sl.call.tag = "ok"
             /\ sl.call.vec # None
             /\ Len(sl.call.vec[1].json) = Len(sl.h.shares)
             /\ \A k \in DOMAIN sl.h.shares :
                   sl.call.vec[1].json[k] = TerminalArtifact(sl.h.shares[k])
        ELSE /\ sl.call.tag = "err"
             /\ sl.call.vec = None

\* a finished keygen of MaxShares shares holding different key shares
C18_Witness ==
    /\ sl.call.op = "finish" /\ sl.call.tag = "ok"
    /\ Len(sl.h.shares) = MaxShares
    /\ sl.keygen
    /\ sl.call.vec[1].json[1].signer.key # sl.call.vec[1].json[MaxShares].signer.key

\* C19: the artifact a finished keygen engine of kind K returns is accepted by
\* the sign constructor of kind K, which yields a sign engine in its initial
\* round carrying that group context; the sign constructor of another kind
\* does not take it as a context.
C19_GroupArtifactKind ==
    probe.op = "sign_new" =>
        IF KindProtocol(probe.data.from) = KindProtocol(probe.data.kind)
        THEN /\ probe.r1.res.tag = "ok"
             /\ probe.e.kind = probe.data.kind
             /\ probe.e.round.name = "R0"
             /\ IF probe.e.kind = "musig2_sign"
                THEN /\ probe.e.setup = probe.data.art.setup
                     /\ probe.e.initial_signer = probe.data.art.signer
                ELSE /\ probe.e.round.setup = probe.data.art.setup
                     /\ probe.e.round.signer = probe.data.art.signer
        ELSE probe.r1.res.tag # "ok"

\* a MuSig2 sign engine made from the artifact of a MuSig2 keygen that
\* aggregated the key shares of this party and of a peer
C19_Witness ==
    /\ probe.op = "sign_new"
    /\ probe.data.from = "musig2_keygen" /\ probe.data.kind = "musig2_sign"
    /\ probe.r1.res.tag = "ok"
    /\ Cardinality(probe.data.art.signer.agg) = MaxKey
    /\ probe.e.initial_signer.agg = probe.data.art.signer.agg

\* C20: an intermediate-round advance of a MuSig2 engine on a server message
\* that declares another protocol kind fails and leaves the round as it was.
C20_WrongKindServerMessage ==
    /\ probe.op = "advance"
    /\ probe.e.kind \in {"musig2_keygen", "musig2_sign"}
    /\ probe.data.protocol_type # KindProtocol(probe.e.kind)
    => /\ probe.r1.res.tag = "err"
       /\ probe.r1.eng.round = probe.e.round

\* a MuSig2 keygen engine awaiting the peers' key shares took a server message
\* declaring GG18 and finished its run on it
C20_Witness ==
    /\ probe.op = "advance"
    /\ probe.e.kind = "musig2_keygen" /\ probe.e.round.name = "R1"
    /\ probe.data.protocol_type = "Gg18"
    /\ probe.r1.res.tag = "ok"
    /\ probe.r1.eng.round.name = "Done"

\* C21: a MuSig2 engine constructed with with_card = true addresses the output
\* of some round of its run to the card: once such an engine has run to its
\* terminal round, some advance on its handle has returned recipient card.
C21_WithCardToCard ==
    /\ sl.keygen
    /\ \A k \in DOMAIN sl.h.shares :
          sl.h.shares[k].with_card /\ sl.h.shares[k].round.name = "Done"
    => sl.toCard

\* a keygen engine made by with_card() finished its run, its last output
\* (the aggregate key) addressed to the server, none addressed to the card
C21_Witness ==
    /\ sl.keygen
    /\ Len(sl.h.shares) = 1
    /\ sl.h.shares[1].kind = "musig2_keygen" /\ sl.h.shares[1].with_card
    /\ sl.h.shares[1].round.name = "Done"
    /\ sl.call.op = "advance" /\ sl.call.tag = "ok" /\ sl.call.rec = "Server"
    /\ ~sl.toCard

\* C22: a keygen engine leaves its initial round only for a session-init with
\* 1 <= threshold <= parties and 1 <= index <= parties; a session-init outside
\* these bounds is rejected by the first advance and the engine stays in R0.
C22_ParticipantBounds ==
    (/\ last.op = "advance"
     /\ engine.kind \in {"gg18_keygen", "musig2_keygen"}
     /\ last.data.tag = "ProtocolGroupInit"
     /\ ~(/\ 1 <= last.data.threshold /\ last.data.threshold <= last.data.parties
          /\ 1 <= last.data.index /\ last.data.index <= last.data.parties))
    => (last.res.tag = "err" /\ engine.round.name = "R0")

\* a MuSig2 keygen engine took index 3 in a run of 2 parties and moved on
C22_Witness ==
    /\ last.op = "advance"
    /\ engine.kind = "musig2_keygen"
    /\ last.data.tag = "ProtocolGroupInit"
    /\ last.data.parties = 2 /\ last.data.threshold = 2
    /\ last.data.index = 3
    /\ last.res.tag = "ok"
    /\ engine.round.name = "R1" /\ engine.round.setup.index > engine.round.setup.parties

\* C23: a MuSig2 sign engine leaves its initial round only when the indices
\* list of the session-init has exactly as many entries as the group context
\* it was constructed from has parties; a list of another length is rejected.
C23_IndicesAllParties ==
    (/\ last.op = "advance"
     /\ engine.kind = "musig2_sign"
     /\ last.data.tag = "ProtocolInit"
     /\ Len(last.data.indices) # engine.setup.parties)
    => (last.res.tag = "err" /\ engine.round.name = "R0")

\* a sign engine of a group of MaxPeer parties took an empty indices list
C23_Witness ==
    /\ last.op = "advance"
    /\ engine.kind = "musig2_sign"
    /\ engine.setup.parties = MaxPeer
    /\ last.data.tag = "ProtocolInit"
    /\ last.data.indices = <<>>
    /\ last.res.tag = "ok"
    /\ engine.round.name = "R1" /\ engine.indices = Some(<<>>)

\* C24: over any sequence of calls on one engine the round variant only moves
\* forward through the fixed sequence of its protocol: a successful advance
\* moves it to the immediately next variant, no call moves it to an earlier
\* variant or past the next one, and the kind of the engine never changes.
C24_RoundsForward ==
    [][/\ engine'.kind = engine.kind
       /\ IF engine'.round.name = engine.round.name
          THEN ~(last'.op = "advance" /\ last'.res.tag = "ok")
          ELSE LET pos == RoundPos(engine.kind, engine.round.name)
                   pos1 == RoundPos(engine'.kind, engine'.round.name)
               IN  /\ pos1 = pos + 1
                   /\ last'.op = "advance" /\ last'.res.tag = "ok"
      ]_vars

\* a GG18 sign engine midway through its run, each of its successful advances
\* having moved it by one variant
C24_Witness ==
    /\ engine.kind = "gg18_sign"
    /\ engine.round.name = "R5"
    /\ last.op = "advance" /\ last.res.tag = "ok"
    /\ RoundPos(engine.kind, engine.round.name) = nAdv + 1

C27_SnapshotKeepsKind ==
    [][alive = "serialized" =>
          /\ \A a, b \in NewEngines :
                a.kind # b.kind => Serialize(a).typetag # Serialize(b).typetag
          /\ snap # None
          /\ snap[1].typetag = engine.kind
          /\ engine'.kind = snap[1].typetag
          /\ engine'.kind = engine.kind]_vars

\* a GG18 sign engine restored in the middle of its rounds
C27_Witness ==
    /\ last.op = "deserialize"
    /\ alive = "live"
    /\ engine.kind = "gg18_sign"
    /\ engine.round.name = "R3"

\* C28: a handle made by protocol_keygen has its session in cert-swap and
\* holds exactly `shares` engines, each the keygen engine of the requested
\* protocol in its initial round; a handle made by protocol_init has its
\* session in init, the state in which an advance is a protocol round, and
\* holds exactly `shares` sign (for ElGamal: decrypt) engines of the requested
\* protocol in their initial round.
C28_FreshHandle ==
    LET d == probe.data
        h == probe.r1.h
        KeygenKind == [i \in ProtocolIds |->
                          CASE i = "Gg18" -> "gg18_keygen" [] i = "Elgamal" -> "elgamal_keygen"
                            [] i = "Frost" -> "frost_keygen" [] i = "Musig2" -> "musig2_keygen"]
        SignKind == [i \in ProtocolIds |->
                        CASE i = "Gg18" -> "gg18_sign" [] i = "Elgamal" -> "elgamal_decrypt"
                          [] i = "Frost" -> "frost_sign" [] i = "Musig2" -> "musig2_sign"]
    IN  /\ probe.op = "protocol_keygen" /\ probe.r1.res.tag = "ok" =>
              /\ h.state = "CertSwap"
              /\ h.kind = d.proto_id
              /\ Len(h.shares) = d.shares
              /\ \A k \in DOMAIN h.shares :
                    /\ h.shares[k].kind = KeygenKind[d.proto_id]
                    /\ h.shares[k].round.name = "R0"
                    /\ h.shares[k].with_card = d.with_card
        /\ probe.op = "protocol_init" /\ probe.r1.res.tag = "ok" =>
              /\ h.state = "Init"
              /\ h.kind = d.proto_id
              /\ Len(h.shares) = d.shares
              /\ \A k \in DOMAIN h.shares :
                    /\ h.shares[k].kind = SignKind[d.proto_id]
                    /\ h.shares[k].round.name = "R0"

\* protocol_init made a handle of MaxShares MuSig2 sign engines
C28_Witness ==
    /\ probe.op = "protocol_init"
    /\ probe.r1.res.tag = "ok"
    /\ probe.data.proto_id = "Musig2"
    /\ probe.data.shares = MaxShares
    /\ probe.r1.h.state = "Init"
    /\ Len(probe.r1.h.shares) = MaxShares
    /\ probe.r1.h.shares[MaxShares].kind = "musig2_sign"

\* C29: protocol_keygen with with_card = true gives a handle only for FROST
\* and MuSig2, for GG18 and ElGamal it gives none, the call aborting with
\* "Protocol not supported"; with with_card = false it gives a handle for
\* every protocol.
C29_CardKinds ==
    probe.op = "protocol_keygen" =>
        IF probe.data.with_card /\ probe.data.proto_id \in {"Gg18", "Elgamal"}
        THEN probe.r1.res.tag = "panic" /\ probe.r1.res.err = "Protocol not supported"
        ELSE probe.r1.res.tag = "ok"

\* a GG18 keygen with card asked for no shares: the host holds a handle
C29_Witness ==
    /\ probe.op = "protocol_keygen"
    /\ probe.data.proto_id = "Gg18"
    /\ probe.data.with_card
    /\ probe.data.shares = 0
    /\ probe.r1.res.tag = "ok"
    /\ probe.r1.h.state = "CertSwap"
    /\ probe.r1.h.shares = <<>>

\* C30: protocol_init builds its k-th engine from the k-th artifact of the
\* group record, for each of the first `shares` artifacts, and gives no handle
\* when `shares` exceeds the number of artifacts in the record.
C30_ArtifactPerShare ==
    probe.op = "protocol_init" =>
        LET d == probe.data
            h == probe.r1.h
        IN  /\ d.shares > Len(d.group.arts) => probe.r1.res.tag = "panic"
            /\ probe.r1.res.tag = "ok" =>
                  /\ d.shares <= Len(d.group.arts)
                  /\ \A k \in 1..d.shares :
                        /\ k \in DOMAIN h.shares
                        /\ d.proto_id = "Musig2" =>
                              /\ h.shares[k].initial_signer = d.group.arts[k].signer
                              /\ h.shares[k].setup = d.group.arts[k].setup
                        /\ d.proto_id = "Gg18" =>
                              /\ h.shares[k].round.signer = d.group.arts[k].signer
                              /\ h.shares[k].round.setup = d.group.arts[k].setup

\* two artifacts holding different key shares, two engines asked for and made
C30_Witness ==
    /\ probe.op = "protocol_init"
    /\ probe.r1.res.tag = "ok"
    /\ probe.data.proto_id = "Musig2"
    /\ probe.data.shares = 2
    /\ Len(probe.data.group.arts) = 2
    /\ probe.data.group.arts[1].signer # probe.data.group.arts[2].signer
    /\ probe.r1.h.shares[2].initial_signer = probe.data.group.arts[2].signer

C31_OneEntryPerChunk ==
    probe.op = "advance" =>
        \A order \in {probe.o1, probe.o2}, chunk_len \in {PUBNONCE_CHUNK_LEN, SCALAR_CHUNK_LEN} :
            LET data == ValuesIn(probe.data.broadcasts, order)
                total == ConcatLen(data)
                n == total \div chunk_len
                Upto(j) == ConcatLen(SubSeq(data, 1, j))
                \* the byte at position pos of the concatenation, when it is the
                \* last byte of a payload, else an inner byte
                ByteAt(pos) ==
                    LET j == CHOOSE k \in 1..Len(data) : Upto(k - 1) < pos /\ pos <= Upto(k)
                    IN  IF pos = Upto(j) THEN data[j].idx ELSE 0
                keys == [k \in 1..n |-> ByteAt(k * chunk_len)]
                r == deserialize_musig(data, chunk_len)
            IN  IF total % chunk_len # 0
                THEN r.err = "Input data length must be a multiple of the input size"
                ELSE IF \E k, l \in 1..n : k < l /\ keys[k] = keys[l]
                THEN r.err = "Duplicate key found"
                ELSE /\ r.err = ""
                     /\ Cardinality(r.map) = n
                     /\ {c.idx : c \in r.map} = {keys[k] : k \in 1..n}

\* a sign engine in R1 took the nonce chunks of MaxPeer signers, cut from
\* payloads that are no whole chunks, and moved on
C31_Witness ==
    /\ probe.op = "advance"
    /\ probe.e.kind = "musig2_sign"
    /\ probe.e.round.name = "R1"
    /\ probe.r1.res.tag = "ok"
    /\ probe.r1.eng.round.name = "R2"
    /\ LET data == ValuesIn(probe.data.broadcasts, probe.o1)
       IN  /\ ConcatLen(data) = PUBNONCE_CHUNK_LEN
           /\ Len(data) = 2
           /\ deserialize_musig(data, PUBNONCE_CHUNK_LEN).err = ""
           /\ Cardinality(deserialize_musig(data, PUBNONCE_CHUNK_LEN).map) = 1

\* C32: protocol_serialize releases the handle it is given, as protocol_finish
\* does.  A handle is released only while the host holds it and is gone after
\* the call; advance is made only on a handle the host holds; after a
\* serialize the one step possible is protocol_deserialize, whose handle holds
\* the engine of the snapshot; after a finish there is no further step.
C32_ReleasedOnce ==
    [][/\ last'.op \in {"serialize", "finish"} =>
             alive = "live" /\ alive' \in {"serialized", "consumed"}
       /\ last'.op = "serialize" => alive' = "serialized" /\ snap' # None
       /\ last'.op = "finish" => alive' = "consumed"
       /\ last'.op = "advance" => alive = "live"
       /\ alive = "serialized" =>
             /\ last'.op = "deserialize"
             /\ alive' = "live"
             /\ engine' = Deserialize(snap[1])
             /\ snap' = None
       /\ alive # "consumed"]_vars

\* a handle that made a round was serialized: the host holds the bytes only
C32_Witness ==
    /\ alive = "serialized"
    /\ last.op = "serialize"
    /\ snap # None
    /\ snap[1].typetag = "musig2_sign"
    /\ snap[1].round.name = "R1"
    /\ nAdv >= 1

\* C33: right after the advance that took an engine to Done, the payload that
\* advance returned carries the value finish returns: for the sign engines
\* the signature (the key it is under and the message), for the keygen
\* engines the group public key of the context in the artifact.
C33_LastPayloadIsResult ==
    (alive = "live" /\ last.op = "advance" /\ last.res.tag = "ok"
        /\ engine.round.name = "Done") =>
        LET fin == Protocol_finish(engine)
            p == last.res.out[1]
        IN  /\ fin.tag = "ok"
            /\ p.t = "ok"
            /\ p.v # {}
            /\ engine.kind \in {"gg18_sign", "musig2_sign"} =>
                  p.v = fin.art.val.agg /\ p.msg = fin.art.val.msg
            /\ engine.kind \in {"gg18_keygen", "musig2_keygen"} =>
                  p.v = fin.art.signer.agg

\* a MuSig2 sign engine has just sent the signature of a non-empty message
C33_Witness ==
    /\ alive = "live"
    /\ last.op = "advance"
    /\ last.res.tag = "ok"
    /\ engine.kind = "musig2_sign"
    /\ engine.round.name = "Done"
    /\ engine.round.val.msg = <<104>>
    /\ last.res.out[1].msg = <<104>>
    /\ last.res.out[1].v = engine.round.val.agg

\* C34: a MuSig2 sign engine that has left R0 holds the message to sign and
\* the indices, and no call on it returned "message to sign not initialized".
C34_MessageSetPastR0 ==
    engine.kind = "musig2_sign" =>
        /\ engine.round.name # "R0" => engine.message # None /\ engine.indices # None
        /\ last.res.err # "message to sign not initialized"

\* the engine answered the peers' nonces in R1 with the message it had stored
C34_Witness ==
    /\ engine.kind = "musig2_sign"
    /\ engine.round.name = "R2"
    /\ last.op = "advance"
    /\ last.res.tag = "ok"
    /\ engine.message = Some(<<104>>)
    /\ engine.indices # None
    /\ last.res.out[1].msg = <<104>>

\* C35: no advance call on a handle enters the update step of an engine that
\* is in R0: no call is answered by the unreachable!() panic of the GG18
\* update functions or by the "protocol not initialized" error of the MuSig2
\* ones, whatever bytes the host passes and in whatever round.
C35_UpdateNotInR0 ==
    /\ last.res.err # "unreachable"
    /\ last.res.err # "protocol not initialized"
    /\ (last.op = "advance" /\ engine.round.name = "R0") => last.res.tag # "ok"

\* a round message passed to a MuSig2 keygen engine still in R0: init took it
\* and refused it
C35_Witness ==
    /\ last.op = "advance"
    /\ engine.kind = "musig2_keygen"
    /\ engine.round.name = "R0"
    /\ last.data = [tag |-> "other", of |-> "ServerMessage"]
    /\ last.res.tag = "err"
    /\ last.res.err = DecodeError

====
